---- MODULE Spec2Model ----
(***************************************************************************)
(* Parallel event loops (crate pel): the code generated by the            *)
(* create_event_loops! macro of src/src/lib.rs, for three configurations: *)
(* a generic one (two event kinds, two active and two reactive loops),    *)
(* the one of src/tests/mod.rs and the small-event part of                *)
(* src/benches/bench_send_events.rs.                                      *)
(*                                                                         *)
(* Every channel is a std::sync::mpsc channel: an unbounded FIFO queue.   *)
(* One step of a loop's thread is one call of process_events (the handler *)
(* it calls included) or of main_loop; the code of the test and of the    *)
(* benchmark is split at its calls of PelTestCondvar, at each publish of  *)
(* a for loop and wherever a handler writes a field after it has released *)
(* a Mutex or notified the PelTestCondvar that another thread waits on.   *)
(* A call of dispatch_events is one step that receives an event and one   *)
(* step for each send to a subscriber's mailbox, or one step that         *)
(* receives the exit event and one that ends the process; the drop of a   *)
(* PelMainEventLoop is one step for the receiver of the main queue and    *)
(* one step for each sender, in the order of the fields of the struct.    *)
(*                                                                         *)
(* The generic configuration is also run with faults (user code that      *)
(* panics, events put into a mailbox by the code that wires the loops by  *)
(* hand, a PelMainEventLoop that is dropped), and PelTestCondvar is also  *)
(* modelled alone, one step per lock of its Mutex.                        *)
(***************************************************************************)
EXTENDS Naturals, Sequences, FiniteSets

VARIABLES
    loops,       \* the loops of the runtime (the fields of PelAllEventLoops)
    main_queue,  \* the channel read by PelMainEventLoop (pel_main_event_receiver)
    mailbox,     \* per loop: the channel read by its _pel_internal_event_receiver
    pc,          \* per loop: where its thread is
    process,     \* "running", or how std::process::exit ended the process
    fields,      \* per loop: its private fields
    cvar,        \* per loop: the bool guarded by its PelTestCondvar
    dispatcher,  \* "running", "exiting" once recv has returned the exit event
                 \* and until std::process::exit is called, or "dropped"
                 \* when PelMainEventLoop is gone
    local,       \* per active loop: the variable of the for loop of its main_loop
    driver,      \* the thread of the test or benchmark function
    sent,        \* history: every event enqueued into main_queue, in order
    delivered,   \* history: per loop, every event enqueued into its mailbox
    handled,     \* history: per loop, every event handed to one of its handlers
    notified,    \* history: per loop, the number of notify() calls on its cvar
    caller,      \* per thread that calls a PelTestCondvar alone: where it is
    returned,    \* history: the number of returns of wait() of that PelTestCondvar
    drained,     \* per reactive loop: the events handled by a loop that reads
                 \* the same mailbox history by wait_and_drain
    exit_result, \* the Result returned by the latest call of exit()
    fanout,      \* the sends that the dispatcher has left to make for the
                 \* event it has received
    senders      \* the loops whose mailbox sender PelMainEventLoop still holds

vars == <<loops, main_queue, mailbox, pc, process, fields, cvar, dispatcher,
          local, driver, sent, delivered, handled, notified, caller, returned,
          drained, exit_result, fanout, senders>>

-----------------------------------------------------------------------------
(* Bounds of the model *)

\* the number of events (exit events included) ever sent to the main queue
\* by the loops of the generic configuration
MaxPublish == 3

\* the number of rounds (notify a publisher, wait for the subscriber) of the
\* test function
MaxRounds == 3

\* the number of iterations of the benchmark function
MaxIter == 2

\* the number of notify() calls on the PelTestCondvar that is modelled lock
\* by lock
MaxNotify == 2

\* the number of events a publisher of the benchmark sends in one iteration
\* (const N_EVENTS_SENT: u32 = 10 in the benchmark)
N_EVENTS_SENT == 2

-----------------------------------------------------------------------------
(* The configurations: the arguments of create_event_loops! *)

GenericLoops == {"ActivePub", "ActiveSub", "ReactiveSub", "ReactiveA"}

TestLoops == {"PublisherLoopIncreaseCounters", "PublisherLoopResetCounters",
              "SubscriberLoop"}

\* the loops of the benchmark that publish or subscribe to TestEventSmall
\* (those of TestEventBig never get an event in bench_twenty_small_events:
\* their publishers stay in cvar.wait(), their subscribers in recv())
BenchLoops == {"PublisherOneSmallEvent", "PublisherManySmallEvents1",
               "PublisherManySmallEvents2", "SubscriberOneSmallEvent",
               "SubscriberManySmallEvents1", "SubscriberManySmallEvents2"}

AllLoops == GenericLoops \cup TestLoops \cup BenchLoops

ActiveLoops == {"ActivePub", "ActiveSub",
                "PublisherLoopIncreaseCounters", "PublisherLoopResetCounters",
                "PublisherOneSmallEvent", "PublisherManySmallEvents1",
                "PublisherManySmallEvents2"}

ReactiveLoops == AllLoops \ ActiveLoops

\* subscribes to ( ... )
Subscribes(l) ==
    CASE l = "ActiveSub"      -> {"EventA", "EventB"}
      [] l = "ReactiveSub"    -> {"EventA", "EventB"}
      [] l = "ReactiveA"      -> {"EventA"}
      [] l = "SubscriberLoop" -> {"IncreaseCounters", "ResetCounters"}
      [] l \in {"SubscriberOneSmallEvent", "SubscriberManySmallEvents1",
                "SubscriberManySmallEvents2"} -> {"TestEventSmall"}
      [] OTHER                -> {}

\* publishes ( ... )
Publishes(l) ==
    CASE l = "ActivePub"   -> {"EventA", "EventB"}
      [] l = "ReactiveSub" -> {"EventB"}
      [] l = "PublisherLoopIncreaseCounters" -> {"IncreaseCounters"}
      [] l = "PublisherLoopResetCounters"    -> {"ResetCounters"}
      [] l \in {"PublisherOneSmallEvent", "PublisherManySmallEvents1",
                "PublisherManySmallEvents2"} -> {"TestEventSmall"}
      [] OTHER             -> {}

-----------------------------------------------------------------------------
(* Events *)

\* a variant of PelAllEvents with the values of its fields
Event(kind, val) == [kind |-> kind, val |-> val]

PelInternalExitEvent == Event("PelInternalExitEvent", <<>>)

-----------------------------------------------------------------------------
(* std::sync::mpsc *)

\* a send that puts the event at the head of the queue
ChannelSendFront(queue, receiver_alive, event) ==
    IF receiver_alive THEN <<event>> \o queue ELSE queue

\* a send to a channel of capacity 1: the event is dropped when it is full
ChannelSendBounded(queue, receiver_alive, event) ==
    IF receiver_alive /\ Len(queue) < 1 THEN Append(queue, event) ELSE queue

\* a send that queues the event whether the receiver is there or not
ChannelSendBuffered(queue, receiver_alive, event) == Append(queue, event)

\* Sender::send: appends; an error (the receiver is gone) drops the event
ChannelSend(queue, receiver_alive, event) ==
    IF receiver_alive THEN Append(queue, event) ELSE queue

\* the receiver of a loop's mailbox is a field of the loop: it lives as long
\* as the loop's thread
ReceiverAlive(l) == pc[l] # "panicked"

\* the receiver of the main queue is the first field of PelMainEventLoop: it
\* is there until the PelMainEventLoop is dropped
MainLoopAlive == dispatcher # "dropped"

\* a sender that is there only while the main queue holds an event
SenderAliveWhileBusy(l) == l \in senders /\ main_queue # <<>>

\* the sender of the mailbox of l, a field of PelMainEventLoop, is there
SenderAlive(l) == l \in senders

\* a main queue that is disconnected as soon as one loop is gone
MainDisconnectedAny == \E l \in loops : pc[l] = "panicked"

\* the senders of the main queue are fields of the loops
MainDisconnected == \A l \in loops : pc[l] = "panicked"

-----------------------------------------------------------------------------
(* The generated code of a loop *)

\* a subscription test that leaves out the events that the loop published
is_subscribed_to_foreign_event(l, event) ==
    event.kind \in Subscribes(l) /\ event.val[2] # l

is_subscribed_to_event(l, event) == event.kind \in Subscribes(l)

\* self._pel_internal_event_sender.send(event)
SendToMain(event) ==
    /\ main_queue' = ChannelSend(main_queue, MainLoopAlive, event)
    /\ sent' = Append(sent, event)

\* the Result of Sender::send: Err(SendError) when the receiver is dropped
SendResultOk(receiver_alive) == "Ok"

SendResult(receiver_alive) == IF receiver_alive THEN "Ok" ELSE "Err"

\* a publish_<kind> whose send waits until the main queue is empty
publish_blocking(kind, val) ==
    /\ main_queue = <<>>
    /\ SendToMain(Event(kind, val))
    /\ UNCHANGED exit_result

\* publish_<kind>: the result of the send is dropped
publish(kind, val) ==
    /\ SendToMain(Event(kind, val))
    /\ UNCHANGED exit_result

\* an exit whose event never reaches the main queue
exit_dropped ==
    /\ main_queue' = main_queue
    /\ sent' = Append(sent, PelInternalExitEvent)
    /\ exit_result' = SendResult(MainLoopAlive)

\* an exit whose event overtakes the events that wait in the main queue
exit_at_front ==
    /\ main_queue' = ChannelSendFront(main_queue, MainLoopAlive,
                                      PelInternalExitEvent)
    /\ sent' = Append(sent, PelInternalExitEvent)
    /\ exit_result' = SendResult(MainLoopAlive)

\* exit: the result of the send is returned
exit ==
    /\ SendToMain(PelInternalExitEvent)
    /\ exit_result' = SendResult(MainLoopAlive)

-----------------------------------------------------------------------------
(* The user's code of the generic configuration *)

\* what a handler of l may do besides counting the event
HandlerChoices(l, event) ==
    CASE l = "ReactiveSub" /\ event.kind = "EventA" -> {"nothing", "EventB"}
      [] l = "ReactiveA"   -> {"nothing", "exit"}
      [] OTHER             -> {"nothing"}

\* what main_loop of l may do
MainLoopChoices(l) ==
    CASE l = "ActivePub" -> {"nothing", "EventA", "EventB", "exit"}
      [] OTHER           -> {"nothing"}

\* the fields of an event: a number, so that no two events are equal, and
\* the name of the loop that publishes it
UserDoes(l, what) ==
    CASE what = "nothing" -> UNCHANGED <<main_queue, sent, exit_result>>
      [] what = "exit"    -> Len(sent) < MaxPublish /\ exit
      [] OTHER            -> Len(sent) < MaxPublish
                             /\ publish(what, <<Len(sent) + 1, l>>)

\* an on_<kind> that also counts in the field of another loop
on_event_generic_shared(l, event, ret) ==
    /\ fields' = [fields EXCEPT ![l].counter = @ + 1, !["ActiveSub"].counter = @ + 1]
    /\ \E what \in HandlerChoices(l, event) : UserDoes(l, what)
    /\ pc' = [pc EXCEPT ![l] = ret]
    /\ UNCHANGED <<cvar, notified>>

\* on_<kind> of a generic loop
on_event_generic(l, event, ret) ==
    /\ fields' = [fields EXCEPT ![l].counter = @ + 1]
    /\ \E what \in HandlerChoices(l, event) : UserDoes(l, what)
    /\ pc' = [pc EXCEPT ![l] = ret]
    /\ UNCHANGED <<cvar, notified>>

\* a main_loop after which the thread calls main_loop again
main_loop_generic_again(l) ==
    /\ \E what \in MainLoopChoices(l) : UserDoes(l, what)
    /\ pc' = [pc EXCEPT ![l] = "main_loop"]
    /\ UNCHANGED <<fields, cvar, local, notified>>

\* main_loop of a generic active loop
main_loop_generic(l) ==
    /\ \E what \in MainLoopChoices(l) : UserDoes(l, what)
    /\ pc' = [pc EXCEPT ![l] = "process_events"]
    /\ UNCHANGED <<fields, cvar, local, notified>>

-----------------------------------------------------------------------------
(* PelTestCondvar *)

\* a wait that returns once the bool is true and leaves it true
wait_keeps_flag(l) ==
    /\ cvar[l]
    /\ cvar' = cvar

\* wait: returns once the bool is true, and sets it to false
wait(l) ==
    /\ cvar[l]
    /\ cvar' = [cvar EXCEPT ![l] = FALSE]

\* notify: sets the bool to true
notify(l) ==
    /\ cvar' = [cvar EXCEPT ![l] = TRUE]
    /\ notified' = [notified EXCEPT ![l] = @ + 1]

-----------------------------------------------------------------------------
(* PelTestCondvar, lock by lock: one PelTestCondvar shared by threads that *)
(* call wait() and threads that call notify(). A thread is "out" of the    *)
(* calls, or holds the Mutex ("test" in wait, "notify" in notify), or is   *)
(* in Condvar::wait with the Mutex released ("sleeping"), or has been      *)
(* woken and is locking the Mutex again ("woken").                         *)

Waiters == {"waiter1", "waiter2"}

Notifiers == {"notifier1", "notifier2"}

Threads == Waiters \cup Notifiers

\* the PelTestCondvar the threads share: cvar[SharedCvar] is its bool
SharedCvar == "SubscriberLoop"

\* self.lock.lock() returns when no thread holds the Mutex
LockFree == \A t \in Threads : caller[t] \notin {"test", "notify"}

\* a wait whose loop calls Condvar::wait before it reads the bool
wait_lock_sleeps(t) ==
    /\ t \in Waiters
    /\ caller[t] = "out"
    /\ LockFree
    /\ caller' = [caller EXCEPT ![t] = "sleeping"]
    /\ UNCHANGED <<cvar, notified, returned>>

\* wait: let mut events_available = self.lock.lock().unwrap()
wait_lock(t) ==
    /\ t \in Waiters
    /\ caller[t] = "out"
    /\ LockFree
    /\ caller' = [caller EXCEPT ![t] = "test"]
    /\ UNCHANGED <<cvar, notified, returned>>

\* wait: while !*events_available; then either Condvar::wait, which
\* releases the Mutex and blocks in one step, or *events_available = false
\* and the return, which drops the guard
wait_test(t) ==
    /\ t \in Waiters
    /\ caller[t] = "test"
    /\ IF cvar[SharedCvar]
         THEN /\ wait(SharedCvar)
              /\ caller' = [caller EXCEPT ![t] = "out"]
              /\ returned' = returned + 1
         ELSE /\ caller' = [caller EXCEPT ![t] = "sleeping"]
              /\ UNCHANGED <<cvar, returned>>
    /\ UNCHANGED notified

\* Condvar::wait may wake without a notify_one (a spurious wakeup)
spurious_wakeup(t) ==
    /\ t \in Waiters
    /\ caller[t] = "sleeping"
    /\ caller' = [caller EXCEPT ![t] = "woken"]
    /\ UNCHANGED <<cvar, notified, returned>>

\* Condvar::wait returns once it has locked the Mutex again
condvar_wait_returns(t) ==
    /\ t \in Waiters
    /\ caller[t] = "woken"
    /\ LockFree
    /\ caller' = [caller EXCEPT ![t] = "test"]
    /\ UNCHANGED <<cvar, notified, returned>>

\* notify: let mut events_available = self.lock.lock().unwrap()
notify_lock(t) ==
    /\ t \in Notifiers
    /\ caller[t] = "out"
    /\ notified[SharedCvar] < MaxNotify
    /\ LockFree
    /\ caller' = [caller EXCEPT ![t] = "notify"]
    /\ UNCHANGED <<cvar, notified, returned>>

\* self.cvar.notify_one(): wakes one of the threads blocked in Condvar::wait,
\* if there is one
notify_one(t) ==
    IF \E w \in Waiters : caller[w] = "sleeping"
      THEN \E w \in Waiters :
              /\ caller[w] = "sleeping"
              /\ caller' = [caller EXCEPT ![w] = "woken", ![t] = "out"]
      ELSE caller' = [caller EXCEPT ![t] = "out"]

\* notify: *events_available = true; self.cvar.notify_one(); the return
\* drops the guard
notify_set(t) ==
    /\ t \in Notifiers
    /\ caller[t] = "notify"
    /\ notify(SharedCvar)
    /\ notify_one(t)
    /\ UNCHANGED returned

-----------------------------------------------------------------------------
(* The user's code of the test and of the benchmark *)

\* the event main_loop of l publishes
PublishedEvent(l) ==
    CASE l = "PublisherLoopIncreaseCounters" -> Event("IncreaseCounters", <<1, 2>>)
      [] l = "PublisherLoopResetCounters"    -> Event("ResetCounters", <<>>)
      [] OTHER                               -> Event("TestEventSmall", <<>>)

\* the number of times main_loop of l publishes it
PublishCount(l) ==
    IF l \in {"PublisherManySmallEvents1", "PublisherManySmallEvents2"}
      THEN N_EVENTS_SENT
      ELSE 1

\* main_loop of a publisher, first part: self.cvar.wait()
main_loop_wait(l) ==
    /\ wait(l)
    /\ local' = [local EXCEPT ![l] = 0]
    /\ pc' = [pc EXCEPT ![l] = "main_loop_publish"]
    /\ UNCHANGED <<fields, notified, main_queue, sent, exit_result>>

\* main_loop of a publisher, second part: one publish_<kind>
main_loop_publish(l) ==
    /\ process = "running"
    /\ l \in loops \cap ActiveLoops
    /\ pc[l] = "main_loop_publish"
    /\ publish(PublishedEvent(l).kind, PublishedEvent(l).val)
    /\ local' = [local EXCEPT ![l] = @ + 1]
    /\ pc' = [pc EXCEPT ![l] = IF local[l] + 1 < PublishCount(l)
                                 THEN "main_loop_publish"
                                 ELSE "process_events"]
    /\ UNCHANGED <<loops, mailbox, process, fields, cvar, dispatcher, driver,
                   delivered, handled, notified, caller, returned, drained,
                   fanout, senders>>

\* The counters of SubscriberLoop are two Arc<Mutex<u32>> that the test
\* function holds too: a handler locks, writes and unlocks counter1, then
\* locks, writes and unlocks counter2, then calls self.cvar.notify(); each
\* of the three is a step.

\* an on_increase_counters that adds value2 to counter1
on_increase_counters_value2(l, event) ==
    /\ fields' = [fields EXCEPT ![l].counter1 = @ + event.val[2]]
    /\ pc' = [pc EXCEPT ![l] = "counter2"]
    /\ UNCHANGED <<cvar, notified, main_queue, sent, exit_result>>

\* SubscriberLoop::on_increase_counters, first statement:
\* *self.counter1.lock().unwrap() += event.value1
on_increase_counters(l, event) ==
    /\ fields' = [fields EXCEPT ![l].counter1 = @ + event.val[1]]
    /\ pc' = [pc EXCEPT ![l] = "counter2"]
    /\ UNCHANGED <<cvar, notified, main_queue, sent, exit_result>>

\* SubscriberLoop::on_reset_counters, first statement:
\* *self.counter1.lock().unwrap() = 0
on_reset_counters(l, event) ==
    /\ fields' = [fields EXCEPT ![l].counter1 = 0]
    /\ pc' = [pc EXCEPT ![l] = "counter2"]
    /\ UNCHANGED <<cvar, notified, main_queue, sent, exit_result>>

\* the argument of the handler that l is in: the event last handed to a
\* handler of l
HandlerArgument(l) == handled[l][Len(handled[l])]

\* the second statement of the handlers of SubscriberLoop:
\* *self.counter2.lock().unwrap() += event.value2, or = 0
handler_counter2(l) ==
    /\ process = "running"
    /\ l \in loops
    /\ pc[l] = "counter2"
    /\ fields' = [fields EXCEPT ![l].counter2 =
                      IF HandlerArgument(l).kind = "IncreaseCounters"
                        THEN @ + HandlerArgument(l).val[2]
                        ELSE 0]
    /\ pc' = [pc EXCEPT ![l] = "notify"]
    /\ UNCHANGED <<loops, main_queue, mailbox, process, cvar, dispatcher,
                   local, driver, sent, delivered, handled, notified, caller,
                   returned, drained, exit_result, fanout, senders>>

\* self.cvar.notify() at the end of the handlers of SubscriberLoop
handler_notify(l) ==
    /\ process = "running"
    /\ l \in loops
    /\ pc[l] = "notify"
    /\ notify(l)
    /\ pc' = [pc EXCEPT ![l] = "process_events"]
    /\ UNCHANGED <<loops, main_queue, mailbox, process, fields, dispatcher,
                   local, driver, sent, delivered, handled, caller, returned,
                   drained, exit_result, fanout, senders>>

\* an on_test_event_small that notifies without setting the counter to 0
\* afterwards
on_test_event_small_no_reset(l, event, ret) ==
    /\ fields' = [fields EXCEPT ![l].counter = @ + 1]
    /\ IF fields[l].counter + 1 = N_EVENTS_SENT * 2
         THEN notify(l)
         ELSE UNCHANGED <<cvar, notified>>
    /\ pc' = [pc EXCEPT ![l] = ret]
    /\ UNCHANGED <<main_queue, sent, exit_result>>

\* SubscriberManySmallEvents1/2::on_test_event_small, up to the return of
\* self.cvar.notify(): self.counter += 1 and, at 2 * N_EVENTS_SENT, the
\* notify; the thread that waits may run before self.counter = 0
on_test_event_small(l, event, ret) ==
    /\ fields' = [fields EXCEPT ![l].counter = @ + 1]
    /\ IF fields[l].counter + 1 = N_EVENTS_SENT * 2
         THEN /\ notify(l)
              /\ pc' = [pc EXCEPT ![l] = "reset_counter"]
         ELSE /\ UNCHANGED <<cvar, notified>>
              /\ pc' = [pc EXCEPT ![l] = ret]
    /\ UNCHANGED <<main_queue, sent, exit_result>>

\* SubscriberManySmallEvents1/2::on_test_event_small after the notify:
\* self.counter = 0, and the return to the loop of the thread
handler_reset_counter(l) ==
    /\ process = "running"
    /\ l \in loops
    /\ pc[l] = "reset_counter"
    /\ fields' = [fields EXCEPT ![l].counter = 0]
    /\ pc' = [pc EXCEPT ![l] = "process_events"]
    /\ UNCHANGED <<loops, main_queue, mailbox, process, cvar, dispatcher,
                   local, driver, sent, delivered, handled, notified, caller,
                   returned, drained, exit_result, fanout, senders>>

\* SubscriberOneSmallEvent::on_test_event_small
on_test_event_small_one(l, event, ret) ==
    /\ notify(l)
    /\ pc' = [pc EXCEPT ![l] = ret]
    /\ UNCHANGED <<fields, main_queue, sent, exit_result>>

\* the handler of l for event; ret is where the thread goes when
\* process_events returns
on_event(l, event, ret) ==
    CASE l \in GenericLoops -> on_event_generic(l, event, ret)
      [] l = "SubscriberLoop" /\ event.kind = "IncreaseCounters" ->
            on_increase_counters(l, event)
      [] l = "SubscriberLoop" /\ event.kind = "ResetCounters" ->
            on_reset_counters(l, event)
      [] l = "SubscriberOneSmallEvent" -> on_test_event_small_one(l, event, ret)
      [] OTHER -> on_test_event_small(l, event, ret)

-----------------------------------------------------------------------------
(* process_events *)

\* an arm _ that drops the event and returns
UnhandledSkipped(l, ret) ==
    /\ pc' = [pc EXCEPT ![l] = ret]
    /\ mailbox' = [mailbox EXCEPT ![l] = Tail(@)]
    /\ UNCHANGED <<handled, fields, cvar, notified, main_queue, sent,
                   exit_result>>

\* the thread of l unwinds from a panic: the closure of the thread owns the
\* loop, which is dropped, and the drop of its receiver destroys the events
\* that are still in the mailbox
ReceiverDropped(l) == [mailbox EXCEPT ![l] = <<>>]

\* the arm _ of the match on the event: panic!("Unhandled event"); the
\* thread ends, the loop is dropped
Unhandled(l, ret) ==
    /\ pc' = [pc EXCEPT ![l] = "panicked"]
    /\ mailbox' = ReceiverDropped(l)
    /\ UNCHANGED <<handled, fields, cvar, notified, main_queue, sent,
                   exit_result>>

\* the arm Ok(event) of process_events
Received(l, event, ret) ==
    /\ IF is_subscribed_to_event(l, event)
         THEN /\ mailbox' = [mailbox EXCEPT ![l] = Tail(@)]
              /\ handled' = [handled EXCEPT ![l] = Append(@, event)]
              /\ on_event(l, event, ret)
         ELSE Unhandled(l, ret)
    /\ UNCHANGED <<loops, process, dispatcher, local, driver, delivered,
                   caller, returned, drained, fanout, senders>>

\* std::process::exit(code)
ProcessExit(code) ==
    /\ process' = code
    /\ UNCHANGED <<loops, main_queue, mailbox, pc, fields, cvar, dispatcher,
                   local, driver, sent, delivered, handled, notified, caller,
                   returned, drained, exit_result, fanout, senders>>

\* an active process_events that takes Disconnected as it takes Empty
active_process_events_polling(l) ==
    /\ process = "running"
    /\ l \in loops \cap ActiveLoops
    /\ pc[l] = "process_events"
    /\ IF mailbox[l] # <<>>
         THEN Received(l, Head(mailbox[l]), "main_loop")
         ELSE /\ pc' = [pc EXCEPT ![l] = "main_loop"]
              /\ UNCHANGED <<loops, main_queue, mailbox, process, fields, cvar,
                             dispatcher, local, driver, sent, delivered,
                             handled, notified, caller, returned, drained,
                             exit_result, fanout, senders>>

\* an active process_events that waits for an event, as recv does
active_process_events_blocking(l) ==
    /\ process = "running"
    /\ l \in loops \cap ActiveLoops
    /\ pc[l] = "process_events"
    /\ mailbox[l] # <<>>
    /\ Received(l, Head(mailbox[l]), "main_loop")

\* an active process_events that goes on until the mailbox is empty
active_process_events_drain(l) ==
    /\ process = "running"
    /\ l \in loops \cap ActiveLoops
    /\ pc[l] = "process_events"
    /\ IF mailbox[l] # <<>>
         THEN Received(l, Head(mailbox[l]),
                       IF Len(mailbox[l]) > 1 THEN "process_events" ELSE "main_loop")
         ELSE /\ pc' = [pc EXCEPT ![l] = "main_loop"]
              /\ UNCHANGED <<loops, main_queue, mailbox, process, fields, cvar,
                             dispatcher, local, driver, sent, delivered,
                             handled, notified, caller, returned, drained,
                             exit_result, fanout, senders>>

\* process_events of an active loop: try_recv
active_process_events(l) ==
    /\ process = "running"
    /\ l \in loops \cap ActiveLoops
    /\ pc[l] = "process_events"
    /\ IF mailbox[l] # <<>>
         THEN Received(l, Head(mailbox[l]), "main_loop")
         ELSE IF ~SenderAlive(l)
           THEN ProcessExit("exit(0)")
           ELSE /\ pc' = [pc EXCEPT ![l] = "main_loop"]
                /\ UNCHANGED <<loops, main_queue, mailbox, process, fields,
                               cvar, dispatcher, local, driver, sent,
                               delivered, handled, notified, caller, returned,
                               drained, exit_result, fanout, senders>>

\* a reactive process_events that polls, as try_recv does
reactive_process_events_polling(l) ==
    /\ process = "running"
    /\ l \in loops \cap ReactiveLoops
    /\ pc[l] = "process_events"
    /\ IF mailbox[l] # <<>>
         THEN Received(l, Head(mailbox[l]), "process_events")
         ELSE UNCHANGED vars

\* a reactive process_events that hands the newest event of the mailbox to
\* the handler
reactive_process_events_newest(l) ==
    /\ process = "running"
    /\ l \in loops \cap ReactiveLoops
    /\ pc[l] = "process_events"
    /\ mailbox[l] # <<>>
    /\ Received(l, mailbox[l][Len(mailbox[l])], "process_events")

\* process_events of a reactive loop: recv
reactive_process_events(l) ==
    /\ process = "running"
    /\ l \in loops \cap ReactiveLoops
    /\ pc[l] = "process_events"
    /\ mailbox[l] # <<>> \/ ~SenderAlive(l)
    /\ IF mailbox[l] # <<>>
         THEN Received(l, Head(mailbox[l]), "process_events")
         ELSE ProcessExit("exit(0)")

\* the call of main_loop in the thread of an active loop
main_loop(l) ==
    /\ process = "running"
    /\ l \in loops \cap ActiveLoops
    /\ pc[l] = "main_loop"
    /\ IF l \in GenericLoops THEN main_loop_generic(l) ELSE main_loop_wait(l)
    /\ UNCHANGED <<loops, mailbox, process, dispatcher, driver, delivered,
                   handled, caller, returned, drained, fanout, senders>>

-----------------------------------------------------------------------------
(* PelMainEventLoop *)

\* the senders of PelMainEventLoop in the order of its fields: those of the
\* reactive loops, then those of the active loops, each in the order of
\* the declarations
SenderOrder ==
    <<"ReactiveSub", "ReactiveA", "ActivePub", "ActiveSub",
      "SubscriberLoop", "PublisherLoopIncreaseCounters",
      "PublisherLoopResetCounters",
      "SubscriberOneSmallEvent", "SubscriberManySmallEvents1",
      "SubscriberManySmallEvents2", "PublisherOneSmallEvent",
      "PublisherManySmallEvents1", "PublisherManySmallEvents2">>

\* the dispatcher is in recv: it has no send left to make
NoFanout == <<>>

\* the sends left to make: the event and the loops to send it to, in order
Fanout(event, to) ==
    IF to = <<>> THEN NoFanout ELSE [event |-> event, to |-> to]

\* a fan-out that sends the event to every loop
send_to_all_event_senders(event) ==
    SelectSeq(SenderOrder, LAMBDA l : l \in loops)

\* a fan-out that leaves out the active loops
send_to_reactive_event_senders(event) ==
    SelectSeq(SenderOrder,
              LAMBDA l : l \in loops \cap ReactiveLoops
                           /\ event.kind \in Subscribes(l))

\* a fan-out that sends the event twice to each subscribed loop
send_twice_to_subscribed_event_senders(event) ==
    LET to == SelectSeq(SenderOrder,
                        LAMBDA l : l \in loops /\ is_subscribed_to_event(l, event))
    IN  to \o to

\* a fan-out that gives up, before any send, when a subscribed loop is gone
send_to_subscribed_event_senders_or_none(event) ==
    IF \E l \in loops : is_subscribed_to_event(l, event) /\ ~ReceiverAlive(l)
      THEN <<>>
      ELSE SelectSeq(SenderOrder,
                     LAMBDA l : l \in loops /\ is_subscribed_to_event(l, event))

\* send_to_subscribed_event_senders: the loops the event is sent to, in the
\* order of the sends
send_to_subscribed_event_senders(event) ==
    SelectSeq(SenderOrder,
              LAMBDA l : l \in loops /\ is_subscribed_to_event(l, event))

\* a send that puts the event at the head of the mailbox of a reactive loop
sender_send_front_reactive(l, boxes, event) ==
    [boxes EXCEPT ![l] =
        IF l \in ReactiveLoops
          THEN ChannelSendFront(@, ReceiverAlive(l), event)
          ELSE ChannelSend(@, ReceiverAlive(l), event)]

\* let _ = self._pel_internal_<loop>_event_sender.send(event.clone())
sender_send(l, boxes, event) ==
    [boxes EXCEPT ![l] = ChannelSend(@, ReceiverAlive(l), event)]

\* an arm PelInternalExitEvent that returns
DispatchExitIgnored ==
    /\ dispatcher' = "running"
    /\ UNCHANGED <<process, fanout>>

\* an arm that handles the exit event as the other events, sent to every loop
DispatchExitForwarded ==
    /\ dispatcher' = "running"
    /\ process' = process
    /\ fanout' = Fanout(PelInternalExitEvent,
                        send_to_all_event_senders(PelInternalExitEvent))

\* an arm PelInternalExitEvent that ends the process only once every loop
\* has emptied its mailbox
DispatchExitGraceful ==
    /\ process' = IF \A l \in loops : mailbox[l] = <<>>
                     THEN "exit(0)" ELSE process
    /\ UNCHANGED <<fanout, dispatcher>>

\* the arm PelInternalExitEvent of dispatch_events: ::std::process::exit(0)
DispatchExit ==
    /\ process' = "exit(0)"
    /\ UNCHANGED <<fanout, dispatcher>>

\* an arm Err(RecvError) that ends the process as the exit event does
DispatchDisconnectedSuccess == ProcessExit("exit(0)")

\* the arm Err(RecvError) of dispatch_events
DispatchDisconnected == ProcessExit("exit(1)")

\* dispatch_events, up to the first send or to the call of
\* ::std::process::exit(0): recv; the event it returns is logged next, while
\* the threads of the loops run
dispatch_events ==
    /\ process = "running"
    /\ dispatcher = "running"
    /\ fanout = NoFanout
    /\ main_queue # <<>> \/ MainDisconnected
    /\ IF main_queue # <<>>
         THEN LET event == Head(main_queue) IN
              /\ main_queue' = Tail(main_queue)
              /\ IF event.kind = "PelInternalExitEvent"
                   THEN /\ dispatcher' = "exiting"
                        /\ UNCHANGED fanout
                   ELSE /\ fanout' = Fanout(event,
                                       send_to_subscribed_event_senders(event))
                        /\ UNCHANGED dispatcher
              /\ UNCHANGED <<loops, mailbox, pc, process, fields, cvar,
                             local, driver, sent, delivered, handled, notified,
                             caller, returned, drained, exit_result, senders>>
         ELSE DispatchDisconnected

\* dispatch_events, after the exit event was logged: the match on the event
\* goes to the arm PelInternalExitEvent
dispatch_exit ==
    /\ process = "running"
    /\ dispatcher = "exiting"
    /\ DispatchExit
    /\ UNCHANGED <<loops, main_queue, mailbox, pc, fields, cvar, local,
                   driver, sent, delivered, handled, notified, caller,
                   returned, drained, exit_result, senders>>

\* one send of send_to_subscribed_event_senders: the threads of the loops
\* run between two sends
send_event ==
    /\ process = "running"
    /\ dispatcher = "running"
    /\ fanout # NoFanout
    /\ LET l == Head(fanout.to) IN
          /\ mailbox' = sender_send(l, mailbox, fanout.event)
          /\ delivered' = sender_send(l, delivered, fanout.event)
    /\ fanout' = Fanout(fanout.event, Tail(fanout.to))
    /\ UNCHANGED <<loops, main_queue, pc, process, fields, cvar, dispatcher,
                   local, driver, sent, handled, notified, caller, returned,
                   drained, exit_result, senders>>

-----------------------------------------------------------------------------
(* The generic configuration, launched *)

\* a construction that leaves an event in the mailbox of a loop
LaunchedEarly(ls) ==
    /\ loops = ls
    /\ main_queue = <<>>
    /\ mailbox = [l \in AllLoops |->
                     IF l \in ls /\ l = "ReactiveSub"
                       THEN <<Event("EventA", <<0, "ActivePub">>)>> ELSE <<>>]
    /\ pc = [l \in AllLoops |-> "process_events"]
    /\ process = "running"
    /\ dispatcher = "running"
    /\ local = [l \in AllLoops |-> 0]
    /\ cvar = [l \in AllLoops |-> FALSE]
    /\ sent = <<>>
    /\ delivered = mailbox
    /\ handled = [l \in AllLoops |-> <<>>]
    /\ notified = [l \in AllLoops |-> 0]
    /\ caller = [t \in Threads |-> "out"]
    /\ returned = 0
    /\ drained = [l \in AllLoops |-> <<>>]
    /\ exit_result = "none"
    /\ fanout = NoFanout
    /\ senders = ls

\* pel_create_event_loops, pel_launch_event_loops_in_threads and
\* pel_run_main_loop_indefinitely
Launched(ls) ==
    /\ loops = ls
    /\ main_queue = <<>>
    /\ mailbox = [l \in AllLoops |-> <<>>]
    /\ pc = [l \in AllLoops |-> "process_events"]
    /\ process = "running"
    /\ dispatcher = "running"
    /\ local = [l \in AllLoops |-> 0]
    /\ cvar = [l \in AllLoops |-> FALSE]
    /\ sent = <<>>
    /\ delivered = [l \in AllLoops |-> <<>>]
    /\ handled = [l \in AllLoops |-> <<>>]
    /\ notified = [l \in AllLoops |-> 0]
    /\ caller = [t \in Threads |-> "out"]
    /\ returned = 0
    /\ drained = [l \in AllLoops |-> <<>>]
    /\ exit_result = "none"
    /\ fanout = NoFanout
    /\ senders = ls

\* a loop declared with no fields
NoFields == <<>>

Init ==
    /\ Launched(GenericLoops)
    /\ fields = [l \in AllLoops |->
                    IF l \in GenericLoops THEN [counter |-> 0] ELSE NoFields]
    /\ driver = [pc |-> "none", round |-> 0, n |-> 0]

Next ==
    \/ \E l \in GenericLoops : active_process_events(l)
    \/ \E l \in GenericLoops : reactive_process_events(l)
    \/ \E l \in GenericLoops : main_loop(l)
    \/ dispatch_events
    \/ send_event
    \/ dispatch_exit

Spec == Init /\ [][Next]_vars

-----------------------------------------------------------------------------
(* test_event_propagation of tests/mod.rs *)

\* publisher_increase_cvar.notify() or publisher_reset_cvar.notify()
test_notify ==
    /\ process = "running"
    /\ driver.pc = "notify"
    /\ driver.round < MaxRounds
    /\ \E target \in {"PublisherLoopIncreaseCounters", "PublisherLoopResetCounters"} :
          /\ notify(target)
          /\ driver' = [pc |-> "wait", round |-> driver.round + 1,
                        n |-> IF target = "PublisherLoopIncreaseCounters"
                                THEN driver.n + 1 ELSE 0]
    /\ UNCHANGED <<loops, main_queue, mailbox, pc, process, fields, dispatcher,
                   local, sent, delivered, handled, caller, returned, drained,
                   exit_result, fanout, senders>>

\* subscriber_cvar.wait()
test_wait ==
    /\ process = "running"
    /\ driver.pc = "wait"
    /\ wait("SubscriberLoop")
    /\ driver' = [driver EXCEPT !.pc = "assert"]
    /\ UNCHANGED <<loops, main_queue, mailbox, pc, process, fields, dispatcher,
                   local, sent, delivered, handled, notified, caller, returned,
                   drained, exit_result, fanout, senders>>

\* the two assert_eq! on the counters
test_assert ==
    /\ process = "running"
    /\ driver.pc = "assert"
    /\ driver' = [driver EXCEPT !.pc = "notify"]
    /\ UNCHANGED <<loops, main_queue, mailbox, pc, process, fields, cvar,
                   dispatcher, local, sent, delivered, handled, notified,
                   caller, returned, drained, exit_result, fanout, senders>>

InitTest ==
    /\ Launched(TestLoops)
    /\ fields = [l \in AllLoops |->
                    IF l = "SubscriberLoop"
                      THEN [counter1 |-> 0, counter2 |-> 0] ELSE NoFields]
    /\ driver = [pc |-> "assert", round |-> 0, n |-> 0]

NextTest ==
    \/ \E l \in TestLoops : active_process_events(l)
    \/ \E l \in TestLoops : reactive_process_events(l)
    \/ \E l \in TestLoops : main_loop(l)
    \/ \E l \in TestLoops : main_loop_publish(l)
    \/ \E l \in TestLoops : handler_counter2(l)
    \/ \E l \in TestLoops : handler_notify(l)
    \/ dispatch_events
    \/ send_event
    \/ test_notify
    \/ test_wait
    \/ test_assert

SpecTest == InitTest /\ [][NextTest]_vars

-----------------------------------------------------------------------------
(* bench_twenty_small_events of benches/bench_send_events.rs *)

\* publisher1_cvar.notify(), then publisher2_cvar.notify()
bench_notify ==
    /\ process = "running"
    /\ driver.pc \in {"notify1", "notify2"}
    /\ driver.round < MaxIter
    /\ IF driver.pc = "notify1"
         THEN /\ notify("PublisherManySmallEvents1")
              /\ driver' = [driver EXCEPT !.pc = "notify2"]
         ELSE /\ notify("PublisherManySmallEvents2")
              /\ driver' = [driver EXCEPT !.pc = "wait1"]
    /\ UNCHANGED <<loops, main_queue, mailbox, pc, process, fields, dispatcher,
                   local, sent, delivered, handled, caller, returned, drained,
                   exit_result, fanout, senders>>

\* subscriber1_cvar.wait(), then subscriber2_cvar.wait()
bench_wait ==
    /\ process = "running"
    /\ driver.pc \in {"wait1", "wait2"}
    /\ IF driver.pc = "wait1"
         THEN /\ wait("SubscriberManySmallEvents1")
              /\ driver' = [driver EXCEPT !.pc = "wait2"]
         ELSE /\ wait("SubscriberManySmallEvents2")
              /\ driver' = [driver EXCEPT !.pc = "notify1", !.round = @ + 1]
    /\ UNCHANGED <<loops, main_queue, mailbox, pc, process, fields, dispatcher,
                   local, sent, delivered, handled, notified, caller, returned,
                   drained, exit_result, fanout, senders>>

InitBench ==
    /\ Launched(BenchLoops)
    /\ fields = [l \in AllLoops |->
                    IF l \in {"SubscriberManySmallEvents1", "SubscriberManySmallEvents2"}
                      THEN [counter |-> 0] ELSE NoFields]
    /\ driver = [pc |-> "notify1", round |-> 0, n |-> 0]

NextBench ==
    \/ \E l \in BenchLoops : active_process_events(l)
    \/ \E l \in BenchLoops : reactive_process_events(l)
    \/ \E l \in BenchLoops : main_loop(l)
    \/ \E l \in BenchLoops : main_loop_publish(l)
    \/ \E l \in BenchLoops : handler_reset_counter(l)
    \/ dispatch_events
    \/ send_event
    \/ bench_notify
    \/ bench_wait

SpecBench == InitBench /\ [][NextBench]_vars

-----------------------------------------------------------------------------
(* The generic configuration with faults: loops wired by hand, user code *)
(* that panics, a PelMainEventLoop that is dropped                        *)

\* the events a mailbox may hold before the loops are launched: the
\* constructors of the loops and of PelMainEventLoop are public and take the
\* channels as arguments, so the code that creates a channel can send any
\* PelAllEvents into it before it hands the sender to PelMainEventLoop
EarlyEvents(l) ==
    {e \in {Event("EventA", <<0, "early">>), Event("EventB", <<0, "early">>),
            PelInternalExitEvent} : ~is_subscribed_to_event(l, e)}

\* the user's code of l (a handler, or main_loop) panics: the thread of l
\* ends and the loop, with its receiver and its sender, is dropped
user_code_panics(l) ==
    /\ process = "running"
    /\ l \in loops
    /\ pc[l] \in {"process_events", "main_loop"}
    /\ pc[l] = "process_events" =>
          (mailbox[l] # <<>> /\ is_subscribed_to_event(l, Head(mailbox[l])))
    /\ IF pc[l] = "process_events"
         THEN handled' = [handled EXCEPT ![l] = Append(@, Head(mailbox[l]))]
         ELSE UNCHANGED handled
    /\ mailbox' = ReceiverDropped(l)
    /\ pc' = [pc EXCEPT ![l] = "panicked"]
    /\ UNCHANGED <<loops, main_queue, process, fields, cvar, dispatcher, local,
                   driver, sent, delivered, notified, caller, returned,
                   drained, exit_result, fanout, senders>>

\* the owner of PelMainEventLoop drops it, between two calls of
\* dispatch_events: the fields are dropped in the order of their
\* declaration, first the receiver of the main queue, whose drop destroys
\* the events that are still in the main queue
drop_main_event_loop ==
    /\ process = "running"
    /\ dispatcher = "running"
    /\ fanout = NoFanout
    /\ dispatcher' = "dropped"
    /\ main_queue' = <<>>
    /\ UNCHANGED <<loops, mailbox, pc, process, fields, cvar,
                   local, driver, sent, delivered, handled, notified, caller,
                   returned, drained, exit_result, fanout, senders>>

\* the drop goes on: the next field of PelMainEventLoop, the sender of the
\* mailbox of a loop, is dropped; the threads of the loops run meanwhile
drop_event_sender ==
    /\ process = "running"
    /\ dispatcher = "dropped"
    /\ senders # {}
    /\ LET held == SelectSeq(SenderOrder, LAMBDA l : l \in senders) IN
          senders' = senders \ {Head(held)}
    /\ UNCHANGED <<loops, main_queue, mailbox, pc, process, fields, cvar,
                   dispatcher, local, driver, sent, delivered, handled,
                   notified, caller, returned, drained, exit_result, fanout>>

InitEarly ==
    /\ loops = GenericLoops
    /\ main_queue = <<>>
    /\ \E l \in GenericLoops : \E early \in {<<>>} \cup {<<e>> : e \in EarlyEvents(l)} :
          /\ mailbox = [m \in AllLoops |-> IF m = l THEN early ELSE <<>>]
          /\ delivered = mailbox
    /\ pc = [l \in AllLoops |-> "process_events"]
    /\ process = "running"
    /\ dispatcher = "running"
    /\ local = [l \in AllLoops |-> 0]
    /\ cvar = [l \in AllLoops |-> FALSE]
    /\ sent = <<>>
    /\ handled = [l \in AllLoops |-> <<>>]
    /\ notified = [l \in AllLoops |-> 0]
    /\ caller = [t \in Threads |-> "out"]
    /\ returned = 0
    /\ drained = [l \in AllLoops |-> <<>>]
    /\ exit_result = "none"
    /\ fanout = NoFanout
    /\ senders = GenericLoops
    /\ fields = [l \in AllLoops |->
                    IF l \in GenericLoops THEN [counter |-> 0] ELSE NoFields]
    /\ driver = [pc |-> "none", round |-> 0, n |-> 0]

\* the runtime with early events and user code that panics
NextPanic ==
    \/ \E l \in GenericLoops : active_process_events(l)
    \/ \E l \in GenericLoops : reactive_process_events(l)
    \/ \E l \in GenericLoops : main_loop(l)
    \/ dispatch_events
    \/ send_event
    \/ dispatch_exit
    \/ \E l \in GenericLoops : user_code_panics(l)

SpecPanic == InitEarly /\ [][NextPanic]_vars

\* the runtime of pel_create_event_loops with a PelMainEventLoop that its
\* owner may drop
NextDrop ==
    \/ \E l \in GenericLoops : active_process_events(l)
    \/ \E l \in GenericLoops : reactive_process_events(l)
    \/ \E l \in GenericLoops : main_loop(l)
    \/ dispatch_events
    \/ send_event
    \/ dispatch_exit
    \/ drop_main_event_loop
    \/ drop_event_sender

SpecDrop == Init /\ [][NextDrop]_vars

\* the scheduler lets every thread that can take a step take one
FairSpec ==
    /\ Spec
    /\ WF_vars(dispatch_events)
    /\ WF_vars(send_event)
    /\ WF_vars(dispatch_exit)
    /\ \A l \in GenericLoops :
          /\ WF_vars(active_process_events(l))
          /\ WF_vars(reactive_process_events(l))
          /\ WF_vars(main_loop(l))

-----------------------------------------------------------------------------
(* A PelTestCondvar alone: no loop is launched *)

InitCondvar ==
    /\ Launched({})
    /\ fields = [l \in AllLoops |-> NoFields]
    /\ driver = [pc |-> "none", round |-> 0, n |-> 0]

\* what the steps of the threads that call wait() and notify() leave alone
CondvarFrame ==
    UNCHANGED <<loops, main_queue, mailbox, pc, process, fields, dispatcher,
                local, driver, sent, delivered, handled, drained, exit_result,
                fanout, senders>>

NextCondvar ==
    \/ \E t \in Waiters : wait_lock(t) /\ CondvarFrame
    \/ \E t \in Waiters : wait_test(t) /\ CondvarFrame
    \/ \E t \in Waiters : spurious_wakeup(t) /\ CondvarFrame
    \/ \E t \in Waiters : condvar_wait_returns(t) /\ CondvarFrame
    \/ \E t \in Notifiers : notify_lock(t) /\ CondvarFrame
    \/ \E t \in Notifiers : notify_set(t) /\ CondvarFrame

\* the scheduler lets a thread that is in wait() or notify() and can take
\* a step take one; a thread need not call wait() or notify(), and a thread
\* blocked in Condvar::wait need not wake without a notify_one
SpecCondvar ==
    /\ InitCondvar /\ [][NextCondvar]_vars
    /\ \A t \in Waiters :
          /\ WF_vars(wait_test(t) /\ CondvarFrame)
          /\ WF_vars(condvar_wait_returns(t) /\ CondvarFrame)
    /\ \A t \in Notifiers : WF_vars(notify_set(t) /\ CondvarFrame)

\* the scheduler lets the dispatcher's thread run; the loops' threads may starve
FairDispatcherSpec ==
    /\ Spec
    /\ WF_vars(dispatch_events)
    /\ WF_vars(send_event)
    /\ WF_vars(dispatch_exit)

-----------------------------------------------------------------------------
(* The reactive loop of the specification, run beside the generated one *)

\* what a loop that reads by wait_and_drain has not taken yet of the events
\* put into the mailbox of l
Pending(l) == SubSeq(delivered[l], Len(drained[l]) + 1, Len(delivered[l]))

\* process_events of the specification: wait_and_drain blocks until an event
\* is present and pops all the queued events; each one is handed to its
\* handler, in the order received
wait_and_drain(l) ==
    /\ process = "running"
    /\ l \in loops \cap ReactiveLoops
    /\ Pending(l) # <<>>
    /\ drained' = [drained EXCEPT ![l] = @ \o Pending(l)]
    /\ UNCHANGED <<loops, main_queue, mailbox, pc, process, fields, cvar,
                   dispatcher, local, driver, sent, delivered, handled,
                   notified, caller, returned, exit_result, fanout, senders>>

NextDrain ==
    \/ \E l \in GenericLoops : active_process_events(l)
    \/ \E l \in GenericLoops : reactive_process_events(l)
    \/ \E l \in GenericLoops : main_loop(l)
    \/ dispatch_events
    \/ send_event
    \/ dispatch_exit
    \/ \E l \in GenericLoops : wait_and_drain(l)

\* the scheduler lets the thread of a reactive loop that can take a step
\* take one; the other threads may starve
SpecDrain ==
    /\ Init /\ [][NextDrain]_vars
    /\ \A l \in GenericLoops :
          /\ WF_vars(reactive_process_events(l))
          /\ WF_vars(wait_and_drain(l))

-----------------------------------------------------------------------------
(* Properties *)

\* the dispatcher has received an event that it has not sent to l yet
SendPending(l) ==
    fanout # NoFanout /\ \E i \in 1..Len(fanout.to) : fanout.to[i] = l

\* a step of the thread of the dispatcher
DispatcherStep == dispatch_events \/ send_event \/ dispatch_exit

\* the events sent to the main queue that l subscribes to, in order
Routed(l) == SelectSeq(sent, LAMBDA e : e.kind \in Subscribes(l))

\* the number of times l's handlers were called with event
TimesHandled(l, event) ==
    Cardinality({i \in 1..Len(handled[l]) : handled[l][i] = event})

ExitPublished == \E i \in 1..Len(sent) : sent[i] = PelInternalExitEvent

\* the dispatcher has taken an exit event from the main queue
ExitDequeued ==
    \E i \in 1..(Len(sent) - Len(main_queue)) : sent[i] = PelInternalExitEvent

\* no handler is called twice with the same event, nor with an event that
\* was not published
HandledAtMostOnce ==
    \A l \in GenericLoops : \A i \in 1..Len(handled[l]) :
        /\ TimesHandled(l, handled[l][i]) = 1
        /\ \E k \in 1..Len(sent) : sent[k] = handled[l][i]

\* every loop has handled every event routed to it, in order
AllHandled == \A l \in GenericLoops : handled[l] = Routed(l)

\* C1 as stated: every published event of a kind l subscribes to is
\* eventually handled by l, exactly once: whatever was published, a state
\* comes in which every loop has handled every event routed to it (an event
\* once handled stays in the history of the loop).
C1_DeliveryCompleteness ==
    /\ []HandledAtMostOnce
    /\ []<>AllHandled

\* C1 amended: every published event of a kind l subscribes to is handled by
\* l at most once, and is eventually handled by l unless the process exits
\* first: whatever was published, a state comes in which every loop has
\* handled every event routed to it or the process has ended.
C1_DeliveryUnlessExit ==
    /\ []HandledAtMostOnce
    /\ []<>(AllHandled \/ process # "running")

\* C1 witness: three events were published, routed to the active and to the
\* reactive subscriber, and both have handled all of them.
C1_Witness ==
    /\ process = "running"
    /\ Len(Routed("ActiveSub")) = MaxPublish
    /\ handled["ActiveSub"] = Routed("ActiveSub")
    /\ handled["ReactiveSub"] = Routed("ReactiveSub")

\* C2: no mailbox holds, and no loop has dequeued, an event of a kind the
\* loop does not subscribe to (the exit event is of no subscribed kind), and
\* no loop has reached panic!("Unhandled event").
C2_NoCrossDelivery ==
    \A l \in GenericLoops :
        /\ \A i \in 1..Len(mailbox[l]) : mailbox[l][i].kind \in Subscribes(l)
        /\ \A i \in 1..Len(delivered[l]) : delivered[l][i].kind \in Subscribes(l)
        /\ \A i \in 1..Len(handled[l]) : handled[l][i].kind \in Subscribes(l)
        /\ Len(delivered[l]) = Len(handled[l]) + Len(mailbox[l])
        /\ pc[l] # "panicked"

\* C2 witness: an EventB and an exit event went through the dispatcher; the
\* loop subscribed to EventA only got neither.
C2_Witness ==
    /\ \E i \in 1..Len(handled["ReactiveSub"]) :
          handled["ReactiveSub"][i].kind = "EventB"
    /\ Len(delivered["ReactiveA"]) = 1
    /\ ExitDequeued

\* C3: each subscriber handles the events routed to it in the order in which
\* they were enqueued into the main queue: what it has handled is, in order,
\* the first events of that sequence.
C3_PerSubscriberOrder ==
    \A l \in GenericLoops :
        /\ Len(handled[l]) <= Len(Routed(l))
        /\ \A i \in 1..Len(handled[l]) : handled[l][i] = Routed(l)[i]

\* C3 witness: an active and a reactive subscriber have each handled an
\* EventA and an EventB of different publishers, in one of the two orders.
C3_Witness ==
    \E l1 \in {"ActiveSub"}, l2 \in {"ReactiveSub"} :
        /\ Len(handled[l1]) >= 2 /\ Len(handled[l2]) >= 2
        /\ handled[l1][1].kind # handled[l1][2].kind
        /\ handled[l1][1].val[2] # handled[l1][2].val[2]
        /\ handled[l2][1].kind # handled[l2][2].kind
        /\ handled[l2][1].val[2] # handled[l2][2].val[2]

\* C4: two loops that both handle two events handle them in the same order.
C4_SingleTotalOrder ==
    \A x, y \in GenericLoops :
        \A i, j \in 1..Len(handled[x]) : \A m, n \in 1..Len(handled[y]) :
            (i < j /\ handled[x][i] = handled[y][m] /\ handled[x][j] = handled[y][n])
                => m < n

\* C4 witness: two loops have both handled two events published by
\* different loops while both publishers were running.
C4_Witness ==
    /\ Len(handled["ActiveSub"]) >= 3
    /\ Len(handled["ReactiveSub"]) >= 3
    /\ SubSeq(handled["ActiveSub"], 1, 3) = SubSeq(handled["ReactiveSub"], 1, 3)
    /\ handled["ActiveSub"][2].val[2] = "ReactiveSub"
    /\ handled["ActiveSub"][3].val[2] = "ActivePub"
    /\ handled["ActiveSub"][3].val[1] < handled["ActiveSub"][2].val[1] + 2

ManySubscribers == {"SubscriberManySmallEvents1", "SubscriberManySmallEvents2"}

BenchSubscribers == ManySubscribers \cup {"SubscriberOneSmallEvent"}

\* C5: with two publishers that each publish N_EVENTS_SENT events per
\* iteration concurrently, every published event is, for each subscriber, in
\* the main queue, with the dispatcher that has not sent it to the subscriber
\* yet, in the subscriber's mailbox or handled, exactly once; a
\* counting subscriber notifies once per 2 * N_EVENTS_SENT handler calls, and
\* when an iteration ends its handlers have been called 2 * N_EVENTS_SENT
\* times per iteration and it has notified once per iteration; the handler
\* that notifies sets the counter to 0 before it returns (after the notify:
\* until then the counter is 2 * N_EVENTS_SENT), so between two calls of a
\* handler the counter is the number of calls since the last notify.
C5_ConcurrentPublishers ==
    /\ \A s \in BenchSubscribers :
          Len(handled[s]) + Len(mailbox[s]) + Len(main_queue)
              + (IF SendPending(s) THEN 1 ELSE 0) = Len(sent)
    /\ \A s \in ManySubscribers :
          /\ pc[s] \in {"process_events", "reset_counter"}
          /\ pc[s] = "process_events" =>
                fields[s].counter = Len(handled[s]) % (2 * N_EVENTS_SENT)
          /\ pc[s] = "reset_counter" =>
                /\ fields[s].counter = 2 * N_EVENTS_SENT
                /\ Len(handled[s]) > 0
                /\ Len(handled[s]) % (2 * N_EVENTS_SENT) = 0
          /\ notified[s] = Len(handled[s]) \div (2 * N_EVENTS_SENT)
          /\ driver.pc = "notify1" =>
                /\ Len(handled[s]) = 2 * N_EVENTS_SENT * driver.round
                /\ notified[s] = driver.round
                /\ pc[s] = "process_events" => fields[s].counter = 0
                /\ ~cvar[s]
    /\ driver.pc = "wait2" =>
          Len(handled["SubscriberManySmallEvents1"])
              = 2 * N_EVENTS_SENT * (driver.round + 1)

\* C5 witness: the last iteration has ended, and every subscriber of
\* TestEventSmall has handled the events of all iterations; the first
\* counting subscriber has set its counter to 0, the second has notified and
\* not yet set its counter to 0.
C5_Witness ==
    /\ driver.pc = "notify1"
    /\ driver.round = MaxIter
    /\ \A s \in BenchSubscribers : Len(handled[s]) = 2 * N_EVENTS_SENT * MaxIter
    /\ pc["SubscriberManySmallEvents1"] = "process_events"
    /\ fields["SubscriberManySmallEvents1"].counter = 0
    /\ pc["SubscriberManySmallEvents2"] = "reset_counter"
    /\ fields["SubscriberManySmallEvents2"].counter = 2 * N_EVENTS_SENT

\* C6: each time the test function has waited for the subscriber's signal,
\* the counters are (n, 2n) after n increase rounds since the start or the
\* last reset round, (0, 0) after a reset round; they have these values as
\* soon as the signal is there to be observed; while a handler has written
\* counter1 and not counter2 yet the signal is not there and the test
\* function waits for it.
C6_EndToEndPropagation ==
    /\ pc["SubscriberLoop"] \in {"counter2", "notify"} =>
          (driver.pc = "wait" /\ ~cvar["SubscriberLoop"])
    /\ driver.pc = "assert" =>
          fields["SubscriberLoop"] = [counter1 |-> driver.n, counter2 |-> 2 * driver.n]
    /\ (driver.pc = "wait" /\ cvar["SubscriberLoop"]) =>
          fields["SubscriberLoop"] = [counter1 |-> driver.n, counter2 |-> 2 * driver.n]

\* C6 witness: the run of the test: two increase rounds, seen as (2, 4) by
\* the handler of the reset round, which leaves (0, 0) for the last assert.
C6_Witness ==
    /\ driver = [pc |-> "assert", round |-> 3, n |-> 0]
    /\ Len(handled["SubscriberLoop"]) = 3
    /\ handled["SubscriberLoop"][1] = Event("IncreaseCounters", <<1, 2>>)
    /\ handled["SubscriberLoop"][2] = Event("IncreaseCounters", <<1, 2>>)
    /\ handled["SubscriberLoop"][3] = Event("ResetCounters", <<>>)
    /\ fields["SubscriberLoop"] = [counter1 |-> 0, counter2 |-> 0]

\* a step of the thread of active loop l out of process_events
LeavesProcessEvents(l) == pc[l] = "process_events" /\ pc'[l] # "process_events"

\* C7: process_events of an active loop can always take its step, whatever
\* its mailbox holds; the step ends the call, and main_loop is next; with an
\* empty mailbox it calls no handler.
C7_ActiveNonBlocking ==
    /\ [](\A l \in GenericLoops \cap ActiveLoops :
            (process = "running" /\ pc[l] = "process_events")
                => ENABLED active_process_events(l))
    /\ [][\A l \in GenericLoops \cap ActiveLoops :
            pc[l] = "process_events" =>
               /\ pc'[l] \in {"process_events", "main_loop"}
               /\ handled'[l] # handled[l] => pc'[l] = "main_loop"
               /\ (LeavesProcessEvents(l) /\ mailbox[l] = <<>>)
                     => (handled'[l] = handled[l] /\ fields'[l] = fields[l])]_vars

\* C7 witness: an active subscriber went through process_events with an
\* empty mailbox and is at main_loop, having handled nothing, while events
\* are on their way.
C7_Witness ==
    /\ pc["ActiveSub"] = "main_loop"
    /\ handled["ActiveSub"] = <<>>
    /\ mailbox["ActiveSub"] = <<>>
    /\ Len(Routed("ActiveSub")) >= 1

\* C8 as stated: when process_events of an active loop returns, every event
\* that was queued when it was called has been handled.
C8_ActiveDrain ==
    [][\A l \in GenericLoops \cap ActiveLoops :
          LeavesProcessEvents(l) =>
              Len(handled'[l]) >= Len(handled[l]) + Len(mailbox[l])]_vars

\* C8 amended: one call of process_events of an active loop handles the
\* event at the head of its mailbox, if there is one, and no other: the
\* events behind it stay queued, and main_loop runs before the next of them
\* is handled.
C8_ActiveHandlesOne ==
    [][\A l \in GenericLoops \cap ActiveLoops :
          /\ LeavesProcessEvents(l) =>
               /\ pc'[l] = "main_loop"
               /\ IF mailbox[l] = <<>>
                    THEN handled'[l] = handled[l] /\ mailbox'[l] = <<>>
                    ELSE /\ handled'[l] = Append(handled[l], Head(mailbox[l]))
                         /\ mailbox'[l] = Tail(mailbox[l])
          /\ handled'[l] # handled[l] => LeavesProcessEvents(l)]_vars

\* C8 witness: process_events of an active loop has returned after its
\* first handler call, main_loop is next, and the second of the two events
\* published so far is still in its mailbox.
C8_Witness ==
    /\ pc["ActiveSub"] = "main_loop"
    /\ Len(handled["ActiveSub"]) = 1
    /\ Len(mailbox["ActiveSub"]) >= 1
    /\ main_queue = <<>>
    /\ Len(sent) = 2

\* C9: a reactive loop with an empty mailbox can take no step, and a
\* reactive loop's handlers have been called at most as many times as events
\* were enqueued into its mailbox.
C9_ReactiveBlocks ==
    \A l \in GenericLoops \cap ReactiveLoops :
        /\ mailbox[l] = <<>> => ~ENABLED reactive_process_events(l)
        /\ Len(handled[l]) <= Len(delivered[l])

\* C9 witness: a reactive loop has handled an event and waits on its empty
\* mailbox while the dispatcher and the other loops still have work.
C9_Witness ==
    /\ process = "running"
    /\ mailbox["ReactiveA"] = <<>>
    /\ Len(handled["ReactiveA"]) = 1
    /\ main_queue # <<>>
    /\ mailbox["ReactiveSub"] # <<>>

\* C10 as stated: once an exit event has been enqueued into the main queue,
\* no handler is called.
C10_NoHandlerAfterExitPublished ==
    [][ExitPublished => handled' = handled]_vars

\* C10 amended: once the process has ended no handler is called on any loop
\* and no private field changes; handlers may still be called between
\* exit() and that step, also after the dispatcher has received the exit
\* event and before it calls std::process::exit; from the receipt of the
\* exit event on the dispatcher takes no event from the main queue and puts
\* none into a mailbox: it ends the process.
C10_NoHandlerAfterProcessExit ==
    /\ [](ExitDequeued => (process = "exit(0)" \/ dispatcher = "exiting"))
    /\ [][/\ process # "running" => (handled' = handled /\ fields' = fields)
          /\ ExitDequeued =>
                /\ Len(main_queue') >= Len(main_queue)
                /\ delivered' = delivered]_vars

\* C10 witness: the dispatcher has received the exit event and has not ended
\* the process yet, and a loop with an event in its mailbox can call its
\* handler.
C10_Witness ==
    /\ ExitDequeued
    /\ process = "running"
    /\ pc["ReactiveSub"] = "process_events"
    /\ mailbox["ReactiveSub"] # <<>>
    /\ ENABLED (/\ reactive_process_events("ReactiveSub")
                /\ Len(handled'["ReactiveSub"]) > Len(handled["ReactiveSub"]))

\* the dispatcher takes the exit event from the head of the main queue
DequeuesExit ==
    /\ main_queue # <<>>
    /\ Head(main_queue) = PelInternalExitEvent
    /\ main_queue' = Tail(main_queue)

\* C11: the step in which the dispatcher receives the exit event puts nothing
\* into any mailbox, and the dispatcher has one step left, which it can
\* take: it ends the process with status 0 (the threads of the loops run
\* until then); it takes no other event from the main queue and sends
\* nothing; the exit event is never in a mailbox; once the process has ended
\* no thread takes a step, so the events behind the exit event stay in the
\* main queue.
C11_ExitTerminates ==
    /\ [](/\ process \in {"running", "exit(0)"}
          /\ process # "running" => ~ENABLED Next
          /\ \A l \in GenericLoops : \A i \in 1..Len(delivered[l]) :
                delivered[l][i] # PelInternalExitEvent
          /\ ExitDequeued =>
                /\ fanout = NoFanout
                /\ ~ENABLED dispatch_events
                /\ ~ENABLED send_event
                /\ process = "running" =>
                      ENABLED (dispatch_exit /\ process' = "exit(0)"))
    /\ [][/\ DequeuesExit =>
                /\ dispatch_events
                /\ process' = "running"
                /\ mailbox' = mailbox
                /\ delivered' = delivered
          /\ ExitDequeued =>
                /\ Len(main_queue') >= Len(main_queue)
                /\ SubSeq(main_queue', 1, Len(main_queue)) = main_queue
                /\ \A l \in GenericLoops : Len(mailbox'[l]) <= Len(mailbox[l])
          /\ process' # process =>
                (ExitDequeued /\ dispatch_exit /\ process' = "exit(0)")]_vars

\* C11 witness: the process has ended with status 0 with an event left in the
\* main queue, behind the exit event that was dequeued.
C11_Witness ==
    /\ process = "exit(0)"
    /\ main_queue # <<>>
    /\ sent[Len(sent) - Len(main_queue)] = PelInternalExitEvent

\* C12: once a loop has called exit(), the process eventually ends, whatever
\* the loops publish in the meantime, if the dispatcher's thread keeps running.
C12_ShutdownLiveness == ExitPublished ~> (process = "exit(0)")

\* C12 witness: the process has ended after an exit() behind which another
\* loop published an event.
C12_Witness ==
    /\ process = "exit(0)"
    /\ \E i, j \in 1..Len(sent) :
          i < j /\ sent[i] = PelInternalExitEvent /\ sent[j] # PelInternalExitEvent

\* the threads of all the loops have ended
AllLoopsGone == \A l \in GenericLoops : pc[l] = "panicked"

\* C13: when the threads of all the loops have ended (every sender of the
\* main queue is dropped), the dispatcher is not blocked: it makes the sends
\* it has left to make and takes what is left in the main queue, and with
\* the main queue empty its call of recv ends the process with status 1,
\* unless it has received an exit event, on which it ends the process with
\* status 0; status 1 is for this case only, status 0 for a dequeued exit
\* event only.
C13_DispatcherDisconnected ==
    /\ [](/\ (process = "running" /\ AllLoopsGone) => ENABLED DispatcherStep
          /\ (/\ process = "running"
              /\ AllLoopsGone
              /\ fanout = NoFanout
              /\ dispatcher = "running") => ENABLED dispatch_events
          /\ process = "exit(1)" => (AllLoopsGone /\ main_queue = <<>> )
          /\ process = "exit(0)" => ExitDequeued
          /\ process \in {"running", "exit(0)", "exit(1)"})
    /\ [][(AllLoopsGone /\ main_queue = <<>>) =>
              IF dispatcher = "exiting"
                THEN process' = "exit(0)"
                ELSE IF fanout = NoFanout
                  THEN process' = "exit(1)"
                  ELSE send_event /\ mailbox' = mailbox]_vars

\* C13 witness: the process has ended with status 1, after a loop had
\* handled an event, with no exit event dequeued.
C13_Witness ==
    /\ process = "exit(1)"
    /\ ~ExitDequeued
    /\ \E l \in GenericLoops : handled[l] # <<>>

\* C14: the main queue is empty once its receiver is dropped (the events it
\* held are destroyed), and a publish_<kind> by loop p after that leaves
\* the main queue, the process and the other loops as they are; p goes on
\* (to main_loop or process_events), and what changes of p is what the call
\* of its handler changes without the publish: the handled event is out of
\* its mailbox and counted.
C14_BestEffortPublish ==
    /\ [](dispatcher = "dropped" => main_queue = <<>>)
    /\ [][(dispatcher = "dropped" /\ sent' # sent
            /\ sent'[Len(sent')] # PelInternalExitEvent) =>
          LET p == sent'[Len(sent')].val[2] IN
          /\ main_queue' = main_queue
          /\ process' = "running"
          /\ pc'[p] \in {"process_events", "main_loop"}
          /\ \A l \in GenericLoops \ {p} :
                mailbox'[l] = mailbox[l] /\ fields'[l] = fields[l] /\ pc'[l] = pc[l]
          /\ IF pc[p] = "main_loop"
               THEN fields'[p] = fields[p] /\ mailbox'[p] = mailbox[p]
               ELSE /\ mailbox'[p] = Tail(mailbox[p])
                    /\ fields'[p] = [counter |-> fields[p].counter + 1]]_vars

\* C14 witness: of three events published, one was fanned out; the two
\* others, one published from main_loop and one from a handler of a
\* reactive loop, were neither queued nor fanned out, and the process is
\* running.
C14_Witness ==
    /\ process = "running"
    /\ dispatcher = "dropped"
    /\ Len(sent) = 3
    /\ \A i \in 1..3 : sent[i] # PelInternalExitEvent
    /\ sent[3].val[2] = "ReactiveSub"
    /\ main_queue = <<>>
    /\ Len(delivered["ActiveSub"]) = 1

\* the thread of l is at process_events, its mailbox is empty and the
\* sender of its mailbox, the one PelMainEventLoop held, is dropped
Disconnected(l) ==
    /\ process = "running"
    /\ dispatcher = "dropped"
    /\ l \notin senders
    /\ pc[l] = "process_events"
    /\ mailbox[l] = <<>>

\* C15: a loop at process_events with an empty mailbox whose senders are
\* all dropped is not blocked; it does not go on to main_loop and calls no
\* handler: its step ends the process, with status 0, after which no thread
\* takes a step; while the sender of its mailbox is still held, in a
\* PelMainEventLoop whose drop has begun too, no step of the loop ends the
\* process.
C15_LoopDisconnected ==
    /\ [](/\ \A l \in GenericLoops :
                /\ Disconnected(l) => ENABLED (\/ active_process_events(l)
                                               \/ reactive_process_events(l))
                /\ (process = "running" /\ l \in senders) =>
                      ~ENABLED (/\ \/ active_process_events(l)
                                   \/ reactive_process_events(l)
                                   \/ main_loop(l)
                                /\ process' # "running")
          /\ process # "running" => ~ENABLED NextDrop)
    /\ [][\A l \in GenericLoops : Disconnected(l) =>
            /\ pc'[l] = pc[l] /\ handled'[l] = handled[l]
            /\ (active_process_events(l) \/ reactive_process_events(l))
                  => process' = "exit(0)"]_vars

\* C15 witness: the process has ended with status 0 with PelMainEventLoop
\* dropped, so by a loop's process_events, after a loop had handled events;
\* the sender of the mailbox of ActivePub was still held then, and ActivePub
\* had gone on to main_loop after the receiver of the main queue was dropped
\* and had called exit(), which returned Err.
C15_Witness ==
    /\ process = "exit(0)"
    /\ dispatcher = "dropped"
    /\ \E l \in GenericLoops : Len(handled[l]) >= 2
    /\ "ActivePub" \in senders
    /\ exit_result = "Err"

\* the thread of l is at process_events and the event at the head of its
\* mailbox is of a kind l does not subscribe to
UnhandledNext(l) ==
    /\ pc[l] = "process_events"
    /\ mailbox[l] # <<>>
    /\ ~is_subscribed_to_event(l, Head(mailbox[l]))

\* C16: when the event at the head of the mailbox of a loop at
\* process_events is of a kind it does not subscribe to (the exit event
\* included), the event stays there until the loop's step, which takes it
\* out, calls no handler and ends the loop's thread; the events behind it
\* in the mailbox are destroyed with the receiver of the loop; a loop whose
\* thread has ended handles nothing, and its mailbox is empty for ever; no
\* handler is ever called with an event of a kind its loop does not
\* subscribe to.
C16_UnhandledEventIsFatal ==
    /\ [](\A l \in GenericLoops :
            /\ \A i \in 1..Len(handled[l]) :
                  is_subscribed_to_event(l, handled[l][i])
            /\ pc[l] = "panicked" => mailbox[l] = <<>>)
    /\ [][\A l \in GenericLoops :
            /\ UnhandledNext(l) =>
                  \/ /\ pc'[l] = pc[l]
                     /\ handled'[l] = handled[l]
                     /\ mailbox'[l] # <<>>
                     /\ Head(mailbox'[l]) = Head(mailbox[l])
                  \/ /\ pc'[l] = "panicked"
                     /\ handled'[l] = handled[l]
                     /\ fields'[l] = fields[l]
                     /\ mailbox'[l] = <<>>
            /\ pc[l] = "panicked" =>
                  /\ pc'[l] = "panicked"
                  /\ handled'[l] = handled[l]
                  /\ fields'[l] = fields[l]
                  /\ mailbox'[l] = mailbox[l]]_vars

\* C16 witness: a reactive loop whose mailbox started with the exit event
\* has ended without a handler call; an event that was fanned out to it
\* before was destroyed with its mailbox.
C16_Witness ==
    /\ pc["ReactiveA"] = "panicked"
    /\ handled["ReactiveA"] = <<>>
    /\ Len(delivered["ReactiveA"]) = 2
    /\ delivered["ReactiveA"][1] = PelInternalExitEvent
    /\ delivered["ReactiveA"][2].kind = "EventA"
    /\ mailbox["ReactiveA"] = <<>>

\* a loop's thread has ended, another loop's has not
SomeLoopGone ==
    /\ \E l \in GenericLoops : pc[l] = "panicked"
    /\ ~AllLoopsGone

\* C17: the step in which a loop's thread ends leaves the process running
\* and the dispatcher and the other loops as they are; afterwards the
\* process ends only by a dequeued exit event or when all loops are gone,
\* and until then the dispatcher and the other loops can take their steps.
C17_OnlyOffendingLoopEnds ==
    /\ [](/\ process # "running" => (ExitDequeued \/ AllLoopsGone)
          /\ (process = "running" /\ SomeLoopGone) =>
                /\ (main_queue # <<>> \/ fanout # NoFanout) =>
                      ENABLED DispatcherStep
                /\ \A m \in GenericLoops :
                      /\ (pc[m] = "process_events" /\ mailbox[m] # <<>>) =>
                            ENABLED (\/ active_process_events(m)
                                     \/ reactive_process_events(m))
                      /\ pc[m] = "main_loop" => ENABLED main_loop(m))
    /\ [][\A l \in GenericLoops :
            (pc[l] # "panicked" /\ pc'[l] = "panicked") =>
               /\ process' = "running"
               /\ dispatcher' = dispatcher
               /\ dispatcher # "dropped"
               /\ main_queue' = main_queue
               /\ \A m \in GenericLoops \ {l} :
                     /\ pc'[m] = pc[m]
                     /\ mailbox'[m] = mailbox[m]
                     /\ fields'[m] = fields[m]]_vars

\* C17 witness: a loop ended on the early event in its mailbox before any
\* event was fanned out to it; an EventA published by another loop was
\* fanned out later and handled by the two loops that subscribe to it and
\* still run.
C17_Witness ==
    /\ process = "running"
    /\ pc["ReactiveA"] = "panicked"
    /\ handled["ReactiveA"] = <<>>
    /\ Len(delivered["ReactiveA"]) = 1
    /\ \E i \in 1..Len(handled["ActiveSub"]) :
          /\ handled["ActiveSub"][i].kind = "EventA"
          /\ \E j \in 1..Len(handled["ReactiveSub"]) :
                handled["ReactiveSub"][j] = handled["ActiveSub"][i]

\* queue "after" is queue "before" with one event appended
Appended(before, after) ==
    /\ Len(after) = Len(before) + 1
    /\ SubSeq(after, 1, Len(before)) = before

\* C18: a loop that is about to publish can publish and the dispatcher with
\* a send of its fan-out left to do can do it, in every state of the running
\* process, whatever the queues hold; a publish appends the event to the
\* main queue, a send of the fan-out appends it to the mailbox of the next
\* subscriber and changes no other mailbox, and no step changes a queue
\* other than by appending one event or by taking out its head.
C18_SendNeverBlocks ==
    /\ [](process = "running" =>
            /\ (main_queue # <<>> /\ fanout = NoFanout
                   /\ dispatcher = "running") => ENABLED dispatch_events
            /\ fanout # NoFanout => ENABLED send_event
            /\ (pc["ActivePub"] = "main_loop" /\ Len(sent) < MaxPublish) =>
                  ENABLED (main_loop("ActivePub") /\ sent' # sent)
            /\ (/\ mailbox["ReactiveSub"] # <<>>
                /\ Head(mailbox["ReactiveSub"]).kind = "EventA"
                /\ Len(sent) < MaxPublish) =>
                  ENABLED (reactive_process_events("ReactiveSub") /\ sent' # sent))
    /\ [][/\ sent' # sent =>
                main_queue' = Append(main_queue, sent'[Len(sent')])
          /\ (fanout # NoFanout /\ fanout' # fanout) =>
                \A l \in GenericLoops :
                    mailbox'[l] = IF l = Head(fanout.to)
                                    THEN Append(mailbox[l], fanout.event)
                                    ELSE mailbox[l]
          /\ \A l \in GenericLoops :
                \/ mailbox'[l] = mailbox[l]
                \/ Appended(mailbox[l], mailbox'[l])
                \/ mailbox[l] # <<>> /\ mailbox'[l] = Tail(mailbox[l])]_vars

\* C18 witness: the three events published were appended one after the
\* other to the mailbox of a loop that has not handled any.
C18_Witness ==
    /\ Len(mailbox["ActiveSub"]) = 3
    /\ handled["ActiveSub"] = <<>>
    /\ mailbox["ActiveSub"] = sent

\* the loops the dispatcher still has to send the dequeued event to
SendsLeft == IF fanout = NoFanout THEN <<>> ELSE fanout.to

\* the dispatcher takes an event from the main queue
Dequeues == main_queue # <<>> /\ main_queue' = Tail(main_queue)

\* C19: the fields of a loop change only in a step of that loop's thread
\* that calls one of its handlers (main_loop of the generic loops changes
\* no field), and that step changes no other loop's fields; a step of the
\* dispatcher changes no field, no loop's position and no handled event; the
\* counter of a loop counts the calls of its own handlers.
C19_PrivateStateIsolation ==
    /\ [](\A l \in GenericLoops : fields[l].counter = Len(handled[l]))
    /\ [][/\ \A l \in GenericLoops :
                fields'[l] # fields[l] =>
                   /\ pc[l] = "process_events"
                   /\ mailbox[l] # <<>>
                   /\ handled'[l] = Append(handled[l], Head(mailbox[l]))
                   /\ \A m \in GenericLoops \ {l} :
                         fields'[m] = fields[m] /\ handled'[m] = handled[m]
          /\ Dequeues => (fields' = fields /\ pc' = pc /\ handled' = handled)]_vars

\* C19 witness: three loops have handled one, two and three events while
\* the dispatcher fanned them out; each counter has its own loop's count.
C19_Witness ==
    /\ fields["ReactiveA"].counter = 1
    /\ fields["ActiveSub"].counter = 2
    /\ fields["ReactiveSub"].counter = 3
    /\ fields["ActivePub"].counter = 0

\* a notify() has set the bool and no wait() has taken it yet, or a thread
\* is in notify() and about to set it
NotifyPending ==
    \/ cvar[SharedCvar]
    \/ \E t \in Notifiers : caller[t] = "notify"

\* a thread is in wait()
SomeoneWaits == \E t \in Waiters : caller[t] # "out"

\* C20: when the bool is set or being set by a notify() while a thread is
\* in wait(), whether it called wait() before or after the notify(), a
\* wait() returns, with no further notify() needed and without relying on a
\* spurious wakeup; a wait() returns only in a step that finds the bool set
\* and clears it, so there are never more returns of wait() than calls of
\* notify() that are not still pending.
C20_NoLostWakeup ==
    /\ \A n \in 0..MaxNotify :
          (NotifyPending /\ SomeoneWaits /\ returned = n) ~> (returned > n)
    /\ [](returned + (IF cvar[SharedCvar] THEN 1 ELSE 0) <= notified[SharedCvar])
    /\ [][returned' # returned =>
            (cvar[SharedCvar] /\ ~cvar'[SharedCvar] /\ returned' = returned + 1)]_vars

\* C20 witness: after one notify() one wait() has returned; the other
\* thread in wait() is blocked in Condvar::wait and the bool is false.
C20_Witness ==
    /\ notified[SharedCvar] = 1
    /\ returned = 1
    /\ ~cvar[SharedCvar]
    /\ \E t \in Waiters : caller[t] = "sleeping"
    /\ \A t \in Notifiers : caller[t] = "out"

\* a step of the thread of active loop l
ActiveStep(l) == active_process_events(l) \/ main_loop(l)

\* C21: the thread of an active loop starts at process_events; each of
\* its steps is a call of process_events followed by main_loop, or a call
\* of main_loop followed by process_events, and nothing else moves it; while
\* the process runs its next call can always be made.
C21_ActiveAlternation ==
    /\ \A l \in GenericLoops \cap ActiveLoops : pc[l] = "process_events"
    /\ [](\A l \in GenericLoops \cap ActiveLoops :
            /\ pc[l] \in {"process_events", "main_loop"}
            /\ process = "running" => ENABLED ActiveStep(l))
    /\ [][\A l \in GenericLoops \cap ActiveLoops :
            /\ active_process_events(l) =>
                  (pc[l] = "process_events" /\ pc'[l] = "main_loop")
            /\ main_loop(l) =>
                  (pc[l] = "main_loop" /\ pc'[l] = "process_events")
            /\ (pc'[l] # pc[l] \/ handled'[l] # handled[l]) => ActiveStep(l)]_vars

\* C21 witness: the publisher is in its third round (it has published in
\* two calls of main_loop and is at main_loop again) and the active
\* subscriber, having handled two events in two calls of process_events, is
\* at process_events again.
C21_Witness ==
    /\ process = "running"
    /\ pc["ActivePub"] = "main_loop"
    /\ Len(sent) = 2
    /\ \A i \in 1..2 :
          sent[i] # PelInternalExitEvent /\ sent[i].val[2] = "ActivePub"
    /\ Len(handled["ActiveSub"]) = 2
    /\ pc["ActiveSub"] = "process_events"

\* C22: a call of dispatch_events that dequeues an event other than the
\* exit event dequeues that event only, when the sends of the event before
\* it are all done, and has one send to do for each loop that subscribes to
\* its kind and none for any other loop; a mailbox grows only by the next
\* send of the fan-out in progress, which appends the dequeued event, as it
\* is, to the mailbox of one subscriber and dequeues nothing.
C22_FanOutOfOneEvent ==
    [][/\ (Dequeues /\ Head(main_queue) # PelInternalExitEvent) =>
            /\ process' = "running"
            /\ sent' = sent
            /\ fanout = NoFanout
            /\ mailbox' = mailbox
            /\ delivered' = delivered
            /\ fanout' # NoFanout => fanout'.event = Head(main_queue)
            /\ \A l \in GenericLoops :
                  Cardinality({i \in 1..Len(SendsLeft') : SendsLeft'[i] = l})
                     = IF Head(main_queue).kind \in Subscribes(l) THEN 1 ELSE 0
      /\ \A l \in GenericLoops :
            Len(mailbox'[l]) > Len(mailbox[l]) =>
               /\ fanout # NoFanout
               /\ l = Head(fanout.to)
               /\ mailbox'[l] = mailbox[l] \o <<fanout.event>>
               /\ delivered'[l] = delivered[l] \o <<fanout.event>>
               /\ SendsLeft' = Tail(fanout.to)
               /\ main_queue' = main_queue
               /\ \A m \in GenericLoops \ {l} : mailbox'[m] = mailbox[m]]_vars

\* C22 witness: an EventB was fanned out to the two loops that subscribe to
\* it, which had not handled the EventA before it, and not to the loop that
\* subscribes to EventA only.
C22_Witness ==
    /\ Len(mailbox["ActiveSub"]) = 2
    /\ mailbox["ReactiveSub"] = mailbox["ActiveSub"]
    /\ mailbox["ActiveSub"][2].kind = "EventB"
    /\ Len(mailbox["ReactiveA"]) = 1
    /\ mailbox["ReactiveA"][1] = mailbox["ActiveSub"][1]
    /\ mailbox["ActivePub"] = <<>>
    /\ fanout = NoFanout

\* s is the beginning of t
IsPrefix(s, t) == Len(s) <= Len(t) /\ SubSeq(t, 1, Len(s)) = s

\* C23: the reactive loop of the code (one blocking recv and one handler call
\* per process_events) and a loop that reads the same mailbox by
\* wait_and_drain call the handlers in the same order, the order in which
\* the events were put into the mailbox: at every moment each has handled a
\* beginning of that order, a call of process_events blocks on an empty
\* mailbox and hands exactly one event to a handler, and unless the process
\* ends both come, again and again, to have handled every event put into
\* the mailbox.
C23_ReactiveIsWaitAndDrain ==
    /\ [](\A l \in GenericLoops \cap ReactiveLoops :
            /\ IsPrefix(handled[l], delivered[l])
            /\ IsPrefix(drained[l], delivered[l])
            /\ (Len(handled[l]) = Len(drained[l]) => handled[l] = drained[l])
            /\ ((process = "running" /\ Len(handled[l]) = Len(delivered[l]))
                    => ~ENABLED reactive_process_events(l)))
    /\ [][\A l \in GenericLoops \cap ReactiveLoops :
            handled'[l] # handled[l] =>
                /\ Len(handled[l]) < Len(delivered[l])
                /\ handled'[l] =
                      Append(handled[l], delivered[l][Len(handled[l]) + 1])]_vars
    /\ \A l \in GenericLoops \cap ReactiveLoops :
          []<>(\/ process # "running"
               \/ /\ handled[l] = delivered[l]
                  /\ drained[l] = delivered[l])

\* each of the two loops has handled the same two different events
C23_Witness ==
    /\ process = "running"
    /\ Len(handled["ReactiveSub"]) = 2
    /\ handled["ReactiveSub"][1] # handled["ReactiveSub"][2]
    /\ drained["ReactiveSub"] = handled["ReactiveSub"]
    /\ delivered["ReactiveSub"] = handled["ReactiveSub"]

\* l has an event in its mailbox that no handler was called with
UnhandledLeft(l) ==
    /\ mailbox[l] # <<>>
    /\ \A i \in 1..Len(mailbox[l]) : TimesHandled(l, mailbox[l][i]) = 0

\* C24: the dispatcher, once the sends of the event before are done, can
\* take the exit event whatever the mailboxes of the loops hold, and it is
\* never blocked before; once it has taken it, it can end the process
\* whatever the mailboxes hold, and it waits for no loop; the step that takes
\* the exit event and the step that ends the process call no handler and
\* change no mailbox; once the process has ended no loop takes a step, so
\* the events that are in a mailbox at that moment stay there and their
\* handlers never run.
C24_ShutdownIsImmediate ==
    /\ []((/\ process = "running"
            /\ main_queue # <<>>
            /\ Head(main_queue) = PelInternalExitEvent)
              => /\ ENABLED DispatcherStep
                 /\ (fanout = NoFanout /\ dispatcher = "running") =>
                       ENABLED dispatch_events)
    /\ []((process = "running" /\ dispatcher = "exiting") =>
              ENABLED (dispatch_exit /\ process' = "exit(0)"))
    /\ [](process = "exit(0)" =>
            \A l \in GenericLoops :
                /\ ~ENABLED active_process_events(l)
                /\ ~ENABLED reactive_process_events(l)
                /\ ~ENABLED main_loop(l))
    /\ [][/\ DequeuesExit =>
                /\ dispatcher' = "exiting"
                /\ handled' = handled
                /\ mailbox' = mailbox
          /\ process' # process =>
                /\ dispatcher = "exiting"
                /\ process' = "exit(0)"
                /\ handled' = handled
                /\ mailbox' = mailbox
          /\ process = "exit(0)" => (handled' = handled /\ mailbox' = mailbox)]_vars

\* the process has ended while an active and a reactive loop each had an
\* event in the mailbox that was never handled
C24_Witness ==
    /\ process = "exit(0)"
    /\ UnhandledLeft("ActiveSub")
    /\ UnhandledLeft("ReactiveSub")

\* the events that the dispatcher has taken from the main queue, in order
DequeuedByDispatcher == SubSeq(sent, 1, Len(sent) - Len(main_queue))

\* the thread of l takes a step
LoopStep(l) ==
    active_process_events(l) \/ reactive_process_events(l) \/ main_loop(l)

\* C25: while the dispatcher has taken nothing from the main queue every
\* mailbox is empty; the mailbox of a loop loses an event only in a
\* process_events of that loop, which takes its head and touches no other
\* mailbox; a publish or an exit of a loop adds the event to the main queue
\* and to no mailbox; a mailbox gains an event only in a send of the
\* dispatcher, and the event is the one it took from the main queue last; so
\* every event that was ever in a mailbox was taken from the main queue by
\* the dispatcher before.
C25_Wiring ==
    /\ [](/\ DequeuedByDispatcher = <<>> =>
                \A l \in GenericLoops : delivered[l] = <<>> /\ mailbox[l] = <<>>
          /\ \A l \in GenericLoops :
                /\ Len(delivered[l]) = Len(handled[l]) + Len(mailbox[l])
                /\ \A i \in 1..Len(delivered[l]) :
                      \E k \in 1..Len(DequeuedByDispatcher) :
                          DequeuedByDispatcher[k] = delivered[l][i])
    /\ [][/\ \A l \in GenericLoops :
                Len(mailbox'[l]) < Len(mailbox[l]) =>
                    /\ pc[l] = "process_events"
                    /\ active_process_events(l) \/ reactive_process_events(l)
                    /\ mailbox' = [mailbox EXCEPT ![l] = Tail(mailbox[l])]
          /\ sent' # sent =>
                /\ \E l \in GenericLoops : LoopStep(l)
                /\ sent' = Append(sent, main_queue'[Len(main_queue')])
                /\ main_queue' = Append(main_queue, sent'[Len(sent')])
                /\ \A l \in GenericLoops : Len(mailbox'[l]) <= Len(mailbox[l])
                /\ delivered' = delivered
          /\ \A l \in GenericLoops :
                Len(mailbox'[l]) > Len(mailbox[l]) =>
                    /\ send_event
                    /\ main_queue' = main_queue
                    /\ DequeuedByDispatcher # <<>>
                    /\ fanout.event =
                          DequeuedByDispatcher[Len(DequeuedByDispatcher)]
                    /\ mailbox'[l] = Append(mailbox[l], fanout.event)
                    /\ delivered'[l] = Append(delivered[l], fanout.event)]_vars

\* an event published by a reactive loop from a handler has gone through the
\* main queue into the mailboxes of two loops, one of them the publisher's,
\* and has been taken from the mailbox by one of them only
C25_Witness ==
    /\ Len(sent) >= 2
    /\ sent[2].kind = "EventB"
    /\ sent[2].val[2] = "ReactiveSub"
    /\ Len(DequeuedByDispatcher) >= 2
    /\ Len(mailbox["ReactiveSub"]) = 1
    /\ mailbox["ReactiveSub"][1] = sent[2]
    /\ Len(handled["ActiveSub"]) = 2
    /\ handled["ActiveSub"][2] = sent[2]
    /\ mailbox["ActiveSub"] = <<>>

\* the thread of l has ended
Dead(l) == pc[l] = "panicked"

\* a loop that subscribes to the kind of the event is dead
HasDeadSubscriber(event) ==
    \E l \in GenericLoops : event.kind \in Subscribes(l) /\ Dead(l)

\* C26: while a loop is dead and another is not, the dispatcher can take
\* the next event from the main queue or do the next send of its fan-out;
\* the step in which it takes an event of a kind that a dead loop subscribes
\* to leaves the process and the dispatcher running and leaves a send to do
\* for every subscriber that is alive; the send to a dead loop changes no
\* mailbox, leaves the process and the dispatcher running and goes on to the
\* next subscriber; the send to a loop that is alive puts the event into
\* its mailbox; no event is twice in the history of a mailbox.
C26_DeadSubscriberTolerated ==
    /\ []((/\ process = "running"
            /\ SomeLoopGone
            /\ (main_queue # <<>> \/ fanout # NoFanout))
              => ENABLED DispatcherStep)
    /\ [](\A l \in GenericLoops : \A i, j \in 1..Len(delivered[l]) :
              delivered[l][i] = delivered[l][j] => i = j)
    /\ [][/\ (/\ Dequeues
                /\ Head(main_queue) # PelInternalExitEvent
                /\ HasDeadSubscriber(Head(main_queue))) =>
                  /\ process' = "running"
                  /\ dispatcher' = "running"
                  /\ \A l \in GenericLoops :
                        (Head(main_queue).kind \in Subscribes(l) /\ ~Dead(l)) =>
                            /\ fanout' # NoFanout
                            /\ fanout'.event = Head(main_queue)
                            /\ \E i \in 1..Len(SendsLeft') : SendsLeft'[i] = l
          /\ (fanout # NoFanout /\ fanout' # fanout) =>
                  /\ process' = "running"
                  /\ dispatcher' = "running"
                  /\ SendsLeft' = Tail(fanout.to)
                  /\ \A l \in GenericLoops :
                        IF l = Head(fanout.to) /\ ~Dead(l)
                          THEN /\ mailbox'[l] = Append(mailbox[l], fanout.event)
                               /\ delivered'[l] =
                                     Append(delivered[l], fanout.event)
                          ELSE /\ mailbox'[l] = mailbox[l]
                               /\ delivered'[l] = delivered[l]]_vars

\* ReactiveSub is dead; an EventA that never came into its mailbox was put
\* once into the mailboxes of the two subscribers that are alive, and handled
\* by one of them
C26_Witness ==
    /\ process = "running"
    /\ Dead("ReactiveSub")
    /\ ~Dead("ActiveSub") /\ ~Dead("ReactiveA")
    /\ \E i \in 1..Len(handled["ActiveSub"]) :
          LET e == handled["ActiveSub"][i] IN
          /\ e.kind = "EventA"
          /\ \A k \in 1..Len(delivered["ReactiveSub"]) :
                delivered["ReactiveSub"][k] # e
          /\ Cardinality({k \in 1..Len(delivered["ReactiveA"]) :
                             delivered["ReactiveA"][k] = e}) = 1
          /\ Cardinality({k \in 1..Len(delivered["ActiveSub"]) :
                             delivered["ActiveSub"][k] = e}) = 1

\* the event was put once into the mailbox of every loop that subscribes to
\* its kind
FannedOut(event) ==
    \A l \in GenericLoops :
        event.kind \in Subscribes(l) =>
            Cardinality({k \in 1..Len(delivered[l]) : delivered[l][k] = event}) = 1

\* the dispatcher is sending the event: each loop that subscribes to its
\* kind has it once in its mailbox history or has its send still to come
BeingFannedOut(event) ==
    /\ fanout # NoFanout
    /\ fanout.event = event
    /\ \A l \in GenericLoops :
          event.kind \in Subscribes(l) =>
              Cardinality({k \in 1..Len(delivered[l]) : delivered[l][k] = event})
                + Cardinality({k \in 1..Len(fanout.to) : fanout.to[k] = l}) = 1

\* C27: an event sent to the main queue, the exit event too, is queued behind
\* the events sent before it, and the dispatcher takes the events in that
\* order; every event it has taken, other than the exit event, is in the
\* mailbox history of each of its subscribers, but for the sends of the last
\* one that are still to come; the exit event is taken only when no send is
\* left to do; so when the process has ended
\* the dispatcher has taken exactly the events up to the first exit event
\* that was sent, and every event sent before that exit event, those of the
\* loop that called exit among them, was fanned out.
C27_PublishedBeforeExitFannedOut ==
    /\ [](/\ DequeuedByDispatcher \o main_queue = sent
          /\ \A i \in 1..Len(DequeuedByDispatcher) :
                sent[i] # PelInternalExitEvent =>
                    \/ FannedOut(sent[i])
                    \/ i = Len(DequeuedByDispatcher) /\ BeingFannedOut(sent[i])
          /\ process = "exit(0)" =>
                /\ fanout = NoFanout
                /\ DequeuedByDispatcher # <<>>
                /\ sent[Len(DequeuedByDispatcher)] = PelInternalExitEvent
                /\ \A i \in 1..(Len(DequeuedByDispatcher) - 1) :
                      sent[i] # PelInternalExitEvent /\ FannedOut(sent[i]))
    /\ [][(sent' # sent /\ sent'[Len(sent')] = PelInternalExitEvent) =>
              main_queue' = Append(main_queue, PelInternalExitEvent)]_vars

\* ActivePub has published an EventA and an EventB and then called exit (no
\* handler of ReactiveA, the other loop that calls exit, has run); the
\* process has ended and both events are in the mailbox histories of their
\* subscribers
C27_Witness ==
    /\ process = "exit(0)"
    /\ Len(sent) = 3
    /\ sent[1].kind = "EventA" /\ sent[1].val[2] = "ActivePub"
    /\ sent[2].kind = "EventB" /\ sent[2].val[2] = "ActivePub"
    /\ sent[3] = PelInternalExitEvent
    /\ handled["ReactiveA"] = <<>>
    /\ delivered["ActiveSub"] = <<sent[1], sent[2]>>
    /\ delivered["ReactiveSub"] = <<sent[1], sent[2]>>
    /\ delivered["ReactiveA"] = <<sent[1]>>

\* the loop that published the event (the second field of a user event)
Publisher(event) == event.val[2]

\* the events taken by the dispatcher whose kind l subscribes to, but for
\* the last one while its send to l is still to come
SentTo(l) ==
    LET all == SelectSeq(DequeuedByDispatcher,
                         LAMBDA e : e.kind \in Subscribes(l))
    IN  IF SendPending(l) THEN SubSeq(all, 1, Len(all) - 1) ELSE all

\* C28: the mailbox history of a loop is the sequence of the events taken by
\* the dispatcher whose kind the loop subscribes to, whoever published them,
\* but for the event whose send to the loop is still to come; so an event
\* taken by the dispatcher whose publisher subscribes to its kind is, once
\* it was sent to its publisher, exactly once in the mailbox history of its
\* publisher, and not at all before, and a handler of the publisher is
\* called with it at most once.
C28_SelfDelivery ==
    /\ \A l \in GenericLoops : delivered[l] = SentTo(l)
    /\ \A i \in 1..Len(DequeuedByDispatcher) :
          (/\ sent[i] # PelInternalExitEvent
           /\ sent[i].kind \in Subscribes(Publisher(sent[i]))) =>
              /\ Cardinality({k \in 1..Len(delivered[Publisher(sent[i])]) :
                      delivered[Publisher(sent[i])][k] = sent[i]}) =
                    IF /\ i = Len(DequeuedByDispatcher)
                       /\ SendPending(Publisher(sent[i]))
                      THEN 0 ELSE 1
              /\ TimesHandled(Publisher(sent[i]), sent[i]) <= 1

\* ReactiveSub has published an EventB from its handler of EventA and its
\* handler of EventB has been called with that event
C28_Witness ==
    \E i \in 1..Len(handled["ReactiveSub"]) :
        /\ handled["ReactiveSub"][i].kind = "EventB"
        /\ Publisher(handled["ReactiveSub"][i]) = "ReactiveSub"
        /\ Cardinality({k \in 1..Len(delivered["ReactiveSub"]) :
               delivered["ReactiveSub"][k] = handled["ReactiveSub"][i]}) = 1
        /\ \E j \in 1..Len(delivered["ActiveSub"]) :
               delivered["ActiveSub"][j] = handled["ReactiveSub"][i]

\* a wait() returns in this step
WaitReturns == returned' # returned

\* a notify() sets the bool in this step
NotifySets == notified'[SharedCvar] # notified[SharedCvar]

\* C29: a notify() sets the bool to true whatever it was, and releases no
\* wait() by itself; a wait() returns only in a step that finds the bool true
\* and sets it to false; the bool changes in no other step; so the notify()
\* calls made since the last return of a wait() are one pending notification,
\* which one wait() takes, and the next wait() finds the bool false and
\* cannot return before a notify() sets it again.
C29_NotifyCoalesces ==
    /\ [][/\ NotifySets =>
                /\ cvar'[SharedCvar]
                /\ notified'[SharedCvar] = notified[SharedCvar] + 1
                /\ ~WaitReturns
          /\ WaitReturns =>
                /\ cvar[SharedCvar]
                /\ ~cvar'[SharedCvar]
                /\ returned' = returned + 1
          /\ cvar'[SharedCvar] # cvar[SharedCvar] =>
                (NotifySets \/ WaitReturns)]_vars
    /\ [](~cvar[SharedCvar] =>
            \A t \in Waiters :
                /\ ~ENABLED (wait_test(t) /\ CondvarFrame /\ WaitReturns)
                /\ caller[t] = "test" =>
                      ENABLED (wait_test(t) /\ CondvarFrame
                                 /\ caller'[t] = "sleeping"))

\* two notify() calls have released one wait(): the bool is false again, no
\* notify() is in progress, and the second thread that called wait() is
\* blocked in Condvar::wait
C29_Witness ==
    /\ notified[SharedCvar] = 2
    /\ returned = 1
    /\ ~cvar[SharedCvar]
    /\ \A t \in Notifiers : caller[t] = "out"
    /\ \E t \in Waiters : caller[t] = "sleeping"

\* a loop calls exit() in this step
ExitCalled == sent' # sent /\ sent'[Len(sent')] = PelInternalExitEvent

\* a loop calls a publish_<kind> in this step
PublishCalled == sent' # sent /\ sent'[Len(sent')] # PelInternalExitEvent

\* C30: a call of exit() when PelMainEventLoop is gone returns Err and puts
\* nothing into the main queue, and when it is there returns Ok and puts
\* exactly one exit event at the end of the main queue; a call of
\* publish_<kind> when PelMainEventLoop is gone puts nothing into the main
\* queue either, but gives its caller no result: the thread of the caller
\* goes on and the process keeps running; no other step changes the result
\* of the latest exit().
C30_ExitReportsPublishSwallows ==
    /\ exit_result = "none"
    /\ [][/\ (ExitCalled /\ dispatcher = "dropped") =>
                (exit_result' = "Err" /\ main_queue' = main_queue)
          /\ (ExitCalled /\ dispatcher = "running") =>
                /\ exit_result' = "Ok"
                /\ main_queue' = Append(main_queue, PelInternalExitEvent)
          /\ PublishCalled =>
                /\ exit_result' = exit_result
                /\ process' = "running"
                /\ \A l \in GenericLoops : pc'[l] # "panicked"
                /\ dispatcher = "dropped" => main_queue' = main_queue
                /\ dispatcher = "running" =>
                      main_queue' = Append(main_queue, sent'[Len(sent')])
          /\ exit_result' # exit_result => ExitCalled]_vars

\* after the receiver of the main queue was dropped ReactiveSub has
\* published an EventB from a handler, which is in no queue, and then
\* ActivePub, the sender of whose mailbox is still held, has called exit(),
\* which has returned Err and has put nothing into the main queue
C30_Witness ==
    /\ process = "running"
    /\ dispatcher = "dropped"
    /\ "ActivePub" \in senders
    /\ exit_result = "Err"
    /\ Len(sent) = 3
    /\ sent[3] = PelInternalExitEvent
    /\ sent[2].kind = "EventB" /\ sent[2].val[2] = "ReactiveSub"
    /\ main_queue = <<>>
    /\ \A l \in GenericLoops : \A i \in 1..Len(delivered[l]) :
          delivered[l][i] # sent[2]

\* the thread of l takes the head of its mailbox in a process_events
TakesHead(l) ==
    /\ active_process_events(l) \/ reactive_process_events(l)
    /\ mailbox'[l] = Tail(mailbox[l])

\* C31: while the process runs, the dispatcher with a main queue that is not
\* empty or a send left to do can take its next step, which takes the head
\* of the main queue when no send is left to do, and a loop whose mailbox is
\* not empty either can
\* take its head in a process_events or is an active loop in its main_loop,
\* which can return; the handler of ReactiveSub that publishes an EventB, to
\* which ReactiveSub subscribes, can run and publish whatever the main queue
\* and the mailbox of ReactiveSub hold; so no state of the running process
\* with an event in a queue is without a next step.
C31_NoDeadlockFromCore ==
    process = "running" =>
        /\ (main_queue # <<>> \/ fanout # NoFanout) => ENABLED DispatcherStep
        /\ (main_queue # <<>> /\ fanout = NoFanout /\ dispatcher = "running") =>
              ENABLED (dispatch_events /\ main_queue' = Tail(main_queue))
        /\ dispatcher = "exiting" => ENABLED dispatch_exit
        /\ \A l \in GenericLoops :
              mailbox[l] # <<>> =>
                  \/ pc[l] = "process_events" /\ ENABLED TakesHead(l)
                  \/ /\ l \in ActiveLoops
                     /\ pc[l] = "main_loop"
                     /\ ENABLED (main_loop(l) /\ pc'[l] = "process_events")
        /\ (/\ mailbox["ReactiveSub"] # <<>>
            /\ Head(mailbox["ReactiveSub"]).kind = "EventA"
            /\ Len(sent) < MaxPublish) =>
              ENABLED (/\ TakesHead("ReactiveSub")
                       /\ Len(main_queue') = Len(main_queue) + 1
                       /\ main_queue'[Len(main_queue')].kind = "EventB")
        /\ (\/ main_queue # <<>>
            \/ fanout # NoFanout
            \/ \E l \in GenericLoops : mailbox[l] # <<>>) =>
              ENABLED Next

\* the handler of ReactiveSub has published an EventB while the mailbox of
\* ReactiveSub held another event: the EventB waits in the main queue for
\* the dispatcher, and the next event waits in the mailbox for ReactiveSub
C31_Witness ==
    /\ process = "running"
    /\ pc["ReactiveSub"] = "process_events"
    /\ mailbox["ReactiveSub"] # <<>>
    /\ Head(mailbox["ReactiveSub"]).kind = "EventA"
    /\ \E i \in 1..Len(main_queue) :
          /\ main_queue[i].kind = "EventB"
          /\ main_queue[i].val[2] = "ReactiveSub"

\* C32: in the runtime as pel_main assembles it the PelMainEventLoop, with
\* its sender to every mailbox, is there as long as the process runs; a step
\* of a loop's thread never ends the process: an active process_events that
\* finds its mailbox empty goes on to main_loop and a reactive one waits; the
\* process ends only in the step in which the dispatcher, which has received
\* the exit event, calls std::process::exit.
C32_NoLoopSeesDisconnected ==
    /\ [](/\ dispatcher # "dropped"
          /\ senders = GenericLoops
          /\ \A l \in GenericLoops :
                (process = "running" /\ mailbox[l] = <<>>) =>
                    /\ ~ENABLED (LoopStep(l) /\ process' # "running")
                    /\ l \in ReactiveLoops => ~ENABLED reactive_process_events(l)
                    /\ (l \in ActiveLoops /\ pc[l] = "process_events") =>
                          ENABLED (active_process_events(l)
                                     /\ pc'[l] = "main_loop"))
    /\ [][/\ \A l \in GenericLoops : LoopStep(l) => process' = "running"
          /\ process' # process =>
                (dispatch_exit /\ ExitDequeued /\ process' = "exit(0)")
          /\ dispatcher' # "dropped"
          /\ senders' = senders]_vars

\* an active loop has found its mailbox empty, with nothing ever sent to it
\* and nothing left in the main queue, and has gone on to main_loop; the
\* process runs
C32_Witness ==
    /\ process = "running"
    /\ pc["ActiveSub"] = "main_loop"
    /\ delivered["ActiveSub"] = <<>>
    /\ main_queue = <<>>
    /\ \A l \in GenericLoops : mailbox[l] = <<>>

====
